---- MODULE Spec2Model ----
(***************************************************************************)
(* The Scene Manager of the engine (scene/SceneManager.ts): admission of   *)
(* scenes, the deferred operation queue, the per-scene lifecycle and the   *)
(* frame passes.  Scene callbacks (init, preload, create, update) are user *)
(* code; a callback is modelled by the one manager call it makes, made the *)
(* first time the callback runs.                                           *)
(***************************************************************************)
EXTENDS Integers, Sequences, FiniteSets

VARIABLES keys, scenes, _pending, _start, _queue, _data,
          isProcessing, isBooted, systemScene, readyFired, objs,
          log, lastCall, thrown, ret, frame, ncalls, raf, padCall

vars == <<keys, scenes, _pending, _start, _queue, _data,
          isProcessing, isBooted, systemScene, readyFired, objs,
          log, lastCall, thrown, ret, frame, ncalls, raf, padCall>>

(***************************************************************************)
(* Scene status values, in the order of the status names.                  *)
(***************************************************************************)
PENDING == 0
INIT == 1
START == 2
LOADING == 3
CREATING == 4
RUNNING == 5
PAUSED == 6
SLEEPING == 7
SHUTDOWN == 8
DESTROYED == 9

(***************************************************************************)
(* Bounds of the model.                                                    *)
(***************************************************************************)
\* scene objects ever requested (staged, pending or admitted)
MaxScenes == 2
\* entries of the operation queue
MaxQueue == 2
\* calls made on the manager from outside a frame pass
MaxCalls == 3

\* the frame requests and timers a RequestAnimationFrame asks for
MaxHandles == 4

\* the longest string given to Pad and the largest len
MaxStr == 3

MaxPadLen == 4

AllKeys == {"", "default", "A", "B"}
CallKeys == {"A", "B"}
DataValues == {"d0", "d1", "d2"}
NoKey == "undef"

(***************************************************************************)
(* Scene callbacks.  has = the scene defines the callback; op = the        *)
(* manager call the callback makes ("nop" for none) on target ("self" =    *)
(* the scene's own key) with data.                                         *)
(***************************************************************************)
NoCb == [has |-> FALSE, op |-> "nop", target |-> "self", data |-> "d0"]
Nop == [has |-> TRUE, op |-> "nop", target |-> "self", data |-> "d0"]
Calls(op, target, data) == [has |-> TRUE, op |-> op, target |-> target, data |-> data]

(***************************************************************************)
(* Scene descriptors: the forms add and bootQueue dispatch on (a Scene     *)
(* instance, a plain object, a class extending Scene, a plain constructor  *)
(* function), the key the descriptor itself carries ("" = none), the       *)
(* active flag, the pack ("none", "ok" = the loader accepts it, "empty" =  *)
(* the loader refuses it) and the callbacks.                               *)
(***************************************************************************)
Desc(form, cfgKey, active, pack, i, p, c, u) ==
    [form |-> form, cfgKey |-> cfgKey, active |-> active, visible |-> TRUE, pack |-> pack,
     init |-> i, preload |-> p, create |-> c, update |-> u]

DescOf(name) ==
    CASE name = "ObjPlain" ->
           Desc("object", "", FALSE, "none", NoCb, NoCb, Nop, NoCb)
      [] name = "ObjFull" ->
           Desc("object", "", FALSE, "none", Nop, Nop, Nop, Calls("remove", "self", "d0"))
      [] name = "ObjKeyA" ->
           Desc("object", "A", FALSE, "none", Nop, NoCb, Nop, Calls("remove", "self", "d0"))
      [] name = "ObjInit" ->
           Desc("object", "", FALSE, "none", Nop, NoCb, Nop, NoCb)
      [] name = "ObjRunA" ->
           Desc("object", "A", FALSE, "none", Nop, NoCb, Nop, NoCb)
      [] name = "ObjKeyB" ->
           Desc("object", "B", FALSE, "none", Nop, NoCb, Nop, NoCb)
      [] name = "ObjKeyBActive" ->
           Desc("object", "B", TRUE, "none", Nop, NoCb, Nop, NoCb)
      [] name = "ObjHidden" ->
           [Desc("object", "", FALSE, "none", Nop, NoCb, Nop, NoCb) EXCEPT !.visible = FALSE]
      [] name = "ObjInitRemove" ->
           Desc("object", "", FALSE, "none", Calls("remove", "self", "d0"), NoCb, Nop, NoCb)
      [] name = "ObjPreRemove" ->
           Desc("object", "", FALSE, "none", NoCb, Calls("remove", "self", "d0"), Nop, NoCb)
      [] name = "ObjInitRestart" ->
           Desc("object", "", TRUE, "none", Calls("start", "self", "d2"), NoCb, Nop, Nop)
      [] name = "ObjPreRestart" ->
           Desc("object", "", FALSE, "none", Nop, Calls("start", "self", "d2"), Nop, NoCb)
      [] name = "ObjCreateRestart" ->
           Desc("object", "", FALSE, "none", Nop, NoCb, Calls("start", "self", "d2"), NoCb)
      [] name = "ObjSelfRemove" ->
           Desc("object", "", FALSE, "none", NoCb, NoCb, Calls("remove", "self", "d0"), NoCb)
      [] name = "ObjPack" ->
           Desc("object", "", FALSE, "ok", Nop, NoCb, Nop, NoCb)
      [] name = "ObjPreA" ->
           Desc("object", "A", FALSE, "none", Nop, Nop, Nop, NoCb)
      [] name = "ObjPackPre" ->
           Desc("object", "", FALSE, "ok", Nop, Nop, Nop, NoCb)
      [] name = "ObjPackUpd" ->
           Desc("object", "", FALSE, "ok", Nop, NoCb, Nop, Nop)
      [] name = "ObjPreUpd" ->
           Desc("object", "", FALSE, "none", Nop, Nop, Nop, Nop)
      [] name = "InstA" ->
           Desc("instance", "A", FALSE, "none", NoCb, NoCb, Nop, Nop)
      [] name = "ClassA" ->
           Desc("class", "A", FALSE, "none", Nop, NoCb, Nop, Nop)
      [] name = "PlainFn" ->
           Desc("plainfn", "", FALSE, "none", NoCb, NoCb, Nop, NoCb)

(***************************************************************************)
(* Sequence helpers (Array.indexOf, splice, push).                         *)
(***************************************************************************)
IndexOf(seq, x) ==
    IF \E i \in 1..Len(seq) : seq[i] = x
    THEN CHOOSE i \in 1..Len(seq) : seq[i] = x /\ \A j \in 1..(i-1) : seq[j] # x
    ELSE 0

RemoveAt(seq, i) == SubSeq(seq, 1, i-1) \o SubSeq(seq, i+1, Len(seq))

InsertAt(seq, i, x) == SubSeq(seq, 1, i-1) \o <<x>> \o SubSeq(seq, i, Len(seq))

\* an entry of the log: st is the scene's status when a callback is entered
Ev(e, id, key, data, st) == [e |-> e, id |-> id, key |-> key, data |-> data, st |-> st]

Logged(m, e, id, key, data) == [m EXCEPT !.log = Append(@, Ev(e, id, key, data, 0))]

(***************************************************************************)
(* The manager's state as one record, so that an operation and the calls   *)
(* nested in it (callbacks calling back into the manager) compose.  err =  *)
(* an exception is propagating; hung = a loop that does not end.           *)
(* systemScene is "null" until bootQueue creates the system scene, then    *)
(* "scene"; "destroyed" once destroy() has destroyed it, set the field     *)
(* back to null and replaced the update method with the no-op.             *)
(***************************************************************************)
Mgr == [keys |-> keys, scenes |-> scenes, _pending |-> _pending, _start |-> _start,
        _queue |-> _queue, _data |-> _data, isProcessing |-> isProcessing,
        isBooted |-> isBooted, systemScene |-> systemScene,
        objs |-> objs, log |-> <<>>, err |-> FALSE,
        hung |-> FALSE, ret |-> "this", frame |-> frame]

NoData == [has |-> FALSE, autoStart |-> FALSE, data |-> "d0"]

(***************************************************************************)
(* Scene Systems and Settings: a scene object's own state.                 *)
(***************************************************************************)
NewScene(descName, key) ==
    [key |-> key, status |-> PENDING, data |-> "d0", desc |-> descName,
     active |-> DescOf(descName).active, visible |-> DescOf(descName).visible,
     isTransition |-> FALSE,
     hook |-> "NOOP", load |-> TRUE, listeners |-> <<>>, loading |-> FALSE,
     fired |-> {}]

SysInit(s) == [s EXCEPT !.status = INIT]

SysStart(s, data) == [s EXCEPT !.status = START, !.data = data, !.hook = "NOOP"]

SysShutdown(s) ==
    [s EXCEPT !.status = SHUTDOWN, !.listeners = <<>>, !.loading = FALSE,
              !.isTransition = FALSE]

SysDestroy(s) ==
    [s EXCEPT !.status = DESTROYED, !.listeners = <<>>, !.loading = FALSE,
              !.load = FALSE]

SysPause(s) == IF s.status = RUNNING THEN [s EXCEPT !.status = PAUSED] ELSE s

SysResume(s) == IF s.status = PAUSED THEN [s EXCEPT !.status = RUNNING] ELSE s

SysSleep(s) == IF s.status = RUNNING THEN [s EXCEPT !.status = SLEEPING] ELSE s

SysWake(s) == IF s.status = SLEEPING THEN [s EXCEPT !.status = RUNNING] ELSE s

IsTransitioning(s) == s.isTransition

\* loader.off(COMPLETE, handler)
Off(listeners, h) == SelectSeq(listeners, LAMBDA x : x # h)

SetObj(m, id, s) == [m EXCEPT !.objs[id] = s]

(***************************************************************************)
(* getScene, getIndex, getAt for string keys: 0 = null / -1 + 1.           *)
(***************************************************************************)
GetScene(m, key) == IF key \in AllKeys THEN m.keys[key] ELSE 0

GetIndex(m, key) == IndexOf(m.scenes, GetScene(m, key))

QueueOp(m, op, keyA, keyB, data) ==
    [m EXCEPT !._queue = Append(@, [op |-> op, keyA |-> keyA, keyB |-> keyB, data |-> data]),
              !.ret = "this"]

RECURSIVE Start(_, _, _)
RECURSIVE BootScene(_, _)
RECURSIVE Create(_, _)
RECURSIVE Remove(_, _)
RECURSIVE Stop(_, _, _)
RECURSIVE RunCallback(_, _, _)
RECURSIVE StartPack(_, _, _)
RECURSIVE BootLoad(_, _)
RECURSIVE BootInit(_, _)

(***************************************************************************)
(* remove(key)                                                             *)
(***************************************************************************)
\* remove without the isProcessing test
RemoveUndeferred(m, key) ==
    LET id == GetScene(m, key) IN
    IF id = 0 \/ IsTransitioning(m.objs[id]) THEN [m EXCEPT !.ret = "this"]
    ELSE [m EXCEPT !.keys[m.objs[id].key] = 0,
                   !.scenes = RemoveAt(@, IndexOf(m.scenes, id)),
                   !.objs[id] = SysDestroy(@),
                   !.ret = "this"]

Remove(m, key) ==
    IF m.isProcessing THEN QueueOp(m, "remove", key, NoKey, "d0")
    ELSE LET id == GetScene(m, key) IN
         IF id = 0 \/ IsTransitioning(m.objs[id]) THEN [m EXCEPT !.ret = "this"]
         ELSE LET index == IndexOf(m.scenes, id)
                  sceneKey == m.objs[id].key
                  si == IndexOf(m._start, sceneKey)
              IN IF index > 0
                 THEN Logged([m EXCEPT !.keys[sceneKey] = 0,
                                       !.scenes = RemoveAt(@, index),
                                       !._start = IF si > 0 THEN RemoveAt(@, si) ELSE @,
                                       !.objs[id] = SysDestroy(@),
                                       !.ret = "this"],
                             "destroy", id, sceneKey, "d0")
                 ELSE [m EXCEPT !.ret = "this"]

\* stop that takes the listeners off and leaves the scene as it is
StopListenersOnly(m, key, data) ==
    LET id == GetScene(m, key) IN
    IF id # 0 /\ ~IsTransitioning(m.objs[id]) /\ m.objs[id].status # SHUTDOWN
    THEN [m EXCEPT !.objs[id].listeners = Off(Off(@, "loadComplete"), "payloadComplete"),
                   !.ret = "this"]
    ELSE [m EXCEPT !.ret = "this"]

(***************************************************************************)
(* stop(key, data)                                                         *)
(***************************************************************************)
Stop(m, key, data) ==
    LET id == GetScene(m, key) IN
    IF id # 0 /\ ~IsTransitioning(m.objs[id]) /\ m.objs[id].status # SHUTDOWN
    THEN Logged([m EXCEPT !.objs[id] = SysShutdown([@ EXCEPT !.listeners =
                                            Off(Off(@, "loadComplete"), "payloadComplete")]),
                          !.ret = "this"],
                "shutdown", id, m.objs[id].key, data)
    ELSE [m EXCEPT !.ret = "this"]

(***************************************************************************)
(* A user callback of scene id runs: it is logged with the data it gets,   *)
(* and the first time it runs it makes its manager call.                   *)
(***************************************************************************)
RunCallback(m, id, cb) ==
    LET s == m.objs[id]
        script == DescOf(s.desc)[cb]
        key == IF script.target = "self" THEN s.key ELSE script.target
        m1 == [m EXCEPT !.objs[id].fired = @ \cup {cb},
                        !.log = Append(@, Ev(cb, id, s.key, s.data, s.status))]
    IN IF script.op = "nop" \/ cb \in s.fired THEN m1
       ELSE CASE script.op = "start"  -> Start(m1, key, script.data)
              [] script.op = "remove" -> Remove(m1, key)
              [] script.op = "stop"   -> Stop(m1, key, script.data)

(***************************************************************************)
(* create(scene)                                                           *)
(***************************************************************************)
\* scene.update: every Scene has the update method of the Scene class (empty
\* unless the descriptor gives one); an object built by a plain constructor
\* function has one only if the function defines it
HasUpdate(d) == d.update.has \/ d.form # "plainfn"

\* after the user's create callback: nothing more if it destroyed the scene
\* the rest of create run whatever the callback did to the scene
CreateDoneNoAbort(m1, id, d) ==
    Logged([m1 EXCEPT !.objs[id].hook = IF HasUpdate(d) THEN "update" ELSE @,
                      !.objs[id].status = RUNNING],
           "created", id, m1.objs[id].key, m1.objs[id].data)

CreateDone(m1, id, d) ==
    IF d.create.has /\ m1.objs[id].status = DESTROYED THEN m1
    ELSE Logged([m1 EXCEPT !.objs[id].hook = IF HasUpdate(d) THEN "update" ELSE @,
                           !.objs[id].status = RUNNING],
                "created", id, m1.objs[id].key, m1.objs[id].data)

Create(m, id) ==
    CreateDone(IF DescOf(m.objs[id].desc).create.has
               THEN RunCallback([m EXCEPT !.objs[id].status = CREATING], id, "create")
               ELSE m,
               id, DescOf(m.objs[id].desc))

(***************************************************************************)
(* bootScene(scene)                                                        *)
(***************************************************************************)
\* loader.reset()
LoaderReset(m, id) ==
    IF m.objs[id].load THEN [m EXCEPT !.objs[id].loading = FALSE] ELSE m

\* settings.status = LOADING; loader.once(COMPLETE, handler); loader.start()
LoaderStart(m, id, handler) ==
    [m EXCEPT !.objs[id].status = LOADING,
              !.objs[id].listeners = Append(@, handler),
              !.objs[id].loading = TRUE]

SetStatus(m, id, status) == [m EXCEPT !.objs[id].status = status]

BootInit(m, id) ==
    IF DescOf(m.objs[id].desc).init.has
    THEN SetStatus(RunCallback(m, id, "init"), id, INIT)
    ELSE m

\* create called as soon as preload returns, without waiting for the loader
BootLoadEager(m, id) ==
    IF m.objs[id].load /\ DescOf(m.objs[id].desc).preload.has
    THEN Create(RunCallback(LoaderReset(m, id), id, "preload"), id)
    ELSE Create(LoaderReset(m, id), id)

BootLoad(m, id) ==
    IF m.objs[id].load /\ DescOf(m.objs[id].desc).preload.has
    THEN LoaderStart(RunCallback(LoaderReset(m, id), id, "preload"), id, "loadComplete")
    ELSE Create(LoaderReset(m, id), id)

BootScene(m, id) == BootLoad(BootInit([m EXCEPT !.objs[id].hook = "NOOP"], id), id)

(***************************************************************************)
(* start(key, data)                                                        *)
(***************************************************************************)
Returns(m, value) == [m EXCEPT !.ret = value]

\* the live branch without the shutdown
StartLiveNoShutdown(m, id, data) ==
    Logged([m EXCEPT !.objs[id] = SysStart(@, data)], "start", id, m.objs[id].key, data)

\* the branch for a running, paused or sleeping scene
StartLive(m, id, data) ==
    Logged(Logged([m EXCEPT !.objs[id] = SysStart(SysShutdown(@), data)],
                  "shutdown", id, m.objs[id].key, "d0"),
           "start", id, m.objs[id].key, data)

\* the idle branch that leaves the step hook as it is
StartIdleKeepsHook(m, id, data) ==
    Logged([m EXCEPT !.objs[id].status = START, !.objs[id].data = data],
           "start", id, m.objs[id].key, data)

\* the branch for an idle scene, up to the pack
StartIdle(m, id, data) ==
    Logged([m EXCEPT !.objs[id] = SysStart(@, data)], "start", id, m.objs[id].key, data)

\* the pack of an idle scene: loaded first when the loader accepts it
StartPack(m, id, pack) ==
    IF m.objs[id].load /\ pack = "ok"
    THEN LoaderStart(LoaderReset(m, id), id, "payloadComplete")
    ELSE BootScene(IF pack # "none" THEN LoaderReset(m, id) ELSE m, id)

\* start that takes a scene whose status is START for an idle one
StartGuardAboveStart(m, key, data) ==
    IF ~m.isBooted
    THEN [m EXCEPT !._data[key] = [has |-> TRUE, autoStart |-> TRUE, data |-> data],
                   !.ret = "this"]
    ELSE IF GetScene(m, key) = 0 THEN Returns(m, "this")
    ELSE IF m.objs[GetScene(m, key)].status > START
            /\ m.objs[GetScene(m, key)].status <= CREATING
    THEN Returns(m, "this")
    ELSE IF m.objs[GetScene(m, key)].status >= RUNNING
            /\ m.objs[GetScene(m, key)].status <= SLEEPING
    THEN Returns(BootScene(StartLive(m, GetScene(m, key), data), GetScene(m, key)), "this")
    ELSE Returns(StartPack(StartIdle(m, GetScene(m, key), data), GetScene(m, key),
                           DescOf(m.objs[GetScene(m, key)].desc).pack), "this")

Start(m, key, data) ==
    IF ~m.isBooted
    THEN [m EXCEPT !._data[key] = [has |-> TRUE, autoStart |-> TRUE, data |-> data],
                   !.ret = "this"]
    ELSE IF GetScene(m, key) = 0 THEN Returns(m, "this")
    ELSE IF m.objs[GetScene(m, key)].status >= START
            /\ m.objs[GetScene(m, key)].status <= CREATING
    THEN Returns(m, "this")
    ELSE IF m.objs[GetScene(m, key)].status >= RUNNING
            /\ m.objs[GetScene(m, key)].status <= SLEEPING
    THEN Returns(BootScene(StartLive(m, GetScene(m, key), data), GetScene(m, key)), "this")
    ELSE Returns(StartPack(StartIdle(m, GetScene(m, key), data), GetScene(m, key),
                           DescOf(m.objs[GetScene(m, key)].desc).pack), "this")

\* pause that puts the scene to sleep
PauseSleeps(m, key) ==
    IF GetScene(m, key) # 0
    THEN [m EXCEPT !.objs[GetScene(m, key)] = SysSleep(@), !.ret = "this"]
    ELSE Returns(m, "this")

(***************************************************************************)
(* pause(key), resume(key), sleep(key), wake(key)                          *)
(***************************************************************************)
Pause(m, key) ==
    IF GetScene(m, key) # 0
    THEN [m EXCEPT !.objs[GetScene(m, key)] = SysPause(@), !.ret = "this"]
    ELSE Returns(m, "this")

\* sys.resume(data) and sys.wake(data): the event carries the data
ResumeScene(m, id, data) ==
    IF m.objs[id].status = PAUSED
    THEN Logged([m EXCEPT !.objs[id] = SysResume(@)], "resume", id, m.objs[id].key, data)
    ELSE m

WakeScene(m, id, data) ==
    IF m.objs[id].status = SLEEPING
    THEN Logged([m EXCEPT !.objs[id] = SysWake(@)], "wake", id, m.objs[id].key, data)
    ELSE m

Resume(m, key, data) ==
    IF GetScene(m, key) # 0
    THEN Returns(ResumeScene(m, GetScene(m, key), data), "this")
    ELSE Returns(m, "this")

\* sleep that does not look at the transition
SleepTransitioning(m, key) ==
    IF GetScene(m, key) # 0
    THEN [m EXCEPT !.objs[GetScene(m, key)] = SysSleep(@), !.ret = "this"]
    ELSE Returns(m, "this")

Sleep(m, key) ==
    IF GetScene(m, key) # 0 /\ ~IsTransitioning(m.objs[GetScene(m, key)])
    THEN [m EXCEPT !.objs[GetScene(m, key)] = SysSleep(@), !.ret = "this"]
    ELSE Returns(m, "this")

Wake(m, key, data) ==
    IF GetScene(m, key) # 0
    THEN Returns(WakeScene(m, GetScene(m, key), data), "this")
    ELSE Returns(m, "this")

(***************************************************************************)
(* run(key, data); it returns this only when the scene is not admitted.    *)
(***************************************************************************)
IsPendingKey(m, key) == \E i \in 1..Len(m._pending) : m._pending[i].key = key

Run(m, key, data) ==
    IF GetScene(m, key) = 0
    THEN IF IsPendingKey(m, key)
         THEN QueueOp(m, "start", key, data, "d0")
         ELSE Returns(m, "this")
    ELSE IF m.objs[GetScene(m, key)].status = SLEEPING
    THEN Returns(WakeScene(m, GetScene(m, key), data), "undefined")
    ELSE IF m.objs[GetScene(m, key)].status = PAUSED
    THEN Returns(ResumeScene(m, GetScene(m, key), data), "undefined")
    ELSE Returns(Start(m, key, data), "undefined")

(***************************************************************************)
(* switch(from, to, data)                                                  *)
(***************************************************************************)
SwitchTo(m1, to, data) ==
    IF m1.objs[GetScene(m1, to)].status = SLEEPING
    THEN Wake(m1, to, data)
    ELSE Returns(Start(m1, to, data), "this")

\* switch that leaves the scene it comes from awake
SwitchNoSleep(m, from, to, data) ==
    IF GetScene(m, from) # 0 /\ GetScene(m, to) # 0
       /\ GetScene(m, from) # GetScene(m, to)
    THEN SwitchTo(m, to, data)
    ELSE Returns(m, "this")

Switch(m, from, to, data) ==
    IF GetScene(m, from) # 0 /\ GetScene(m, to) # 0
       /\ GetScene(m, from) # GetScene(m, to)
    THEN SwitchTo(Sleep(m, from), to, data)
    ELSE Returns(m, "this")

(***************************************************************************)
(* getKey(key, sceneConfig): the resolved key, or the duplicate-key error. *)
(***************************************************************************)
GetKey(m, key, descName) ==
    LET d == DescOf(descName)
        k0 == IF key = "" THEN "default" ELSE key
        k1 == IF d.form \in {"class", "plainfn"} THEN k0
              ELSE IF d.form = "instance" THEN d.cfgKey
              ELSE IF d.cfgKey # "" THEN d.cfgKey
              ELSE k0
    IN IF d.form \in {"class", "plainfn"} THEN [key |-> k0, err |-> FALSE]
       ELSE [key |-> k1, err |-> m.keys[k1] # 0]

(***************************************************************************)
(* createSceneFromInstance / Object / Function: the new scene object, or   *)
(* the duplicate-key error of createSceneFromFunction.                     *)
(***************************************************************************)
CreateSceneFromInstance(key, cfgKey, descName) ==
    [scene |-> SysInit(NewScene(descName, IF cfgKey = "" THEN key ELSE cfgKey)),
     err |-> FALSE]

CreateSceneFromObject(key, cfgKey, descName) ==
    [scene |-> SysInit(NewScene(descName, IF cfgKey # "" THEN cfgKey ELSE key)),
     err |-> FALSE]

CreateSceneFromFunction(m, key, descName) ==
    LET d == DescOf(descName) IN
    IF d.form = "class"
    THEN LET k == IF d.cfgKey # "" THEN d.cfgKey ELSE key IN
         IF m.keys[k] # 0 THEN [scene |-> NewScene(descName, k), err |-> TRUE]
         ELSE CreateSceneFromInstance(k, d.cfgKey, descName)
    ELSE [scene |-> SysInit(NewScene(descName, key)), err |-> FALSE]

\* the dispatch on the descriptor's form; objKey = the key property the
\* plain object carries when createSceneFromObject reads it
CreateScene(m, key, objKey, descName) ==
    LET d == DescOf(descName) IN
    CASE d.form = "instance" -> CreateSceneFromInstance(key, d.cfgKey, descName)
      [] d.form = "object"   -> CreateSceneFromObject(key, objKey, descName)
      [] OTHER               -> CreateSceneFromFunction(m, key, descName)

(***************************************************************************)
(* add(key, sceneConfig, autoStart, data); ret = "scene" for the new       *)
(* scene, "null" for a deferred admission.                                 *)
(***************************************************************************)
AddPending(m, key, descName, autoStart, data) ==
    [m EXCEPT !._pending = Append(@, [key |-> key, scene |-> descName,
                                      autoStart |-> autoStart, data |-> data]),
              !._data = IF ~m.isBooted
                        THEN [@ EXCEPT ![key] = [has |-> TRUE, autoStart |-> FALSE,
                                                 data |-> data]]
                        ELSE @,
              !.ret = "null"]

\* the new scene put first in scenes instead of last
AddSceneFront(m, scene, data) ==
    [m EXCEPT !.objs = Append(@, [scene EXCEPT !.data = data]),
              !.keys[scene.key] = Len(m.objs) + 1,
              !.scenes = <<Len(m.objs) + 1>> \o @,
              !.ret = "scene"]

\* the scene object is created: data injected, keys and scenes updated
AddScene(m, scene, data) ==
    Logged([m EXCEPT !.objs = Append(@, [scene EXCEPT !.data = data]),
                     !.keys[scene.key] = Len(m.objs) + 1,
                     !.scenes = Append(@, Len(m.objs) + 1),
                     !.ret = "scene"],
           "admit", Len(m.objs) + 1, scene.key, data)

AddStart(m1, key, auto) ==
    IF ~auto THEN m1
    ELSE IF Len(m1._pending) > 0 THEN [m1 EXCEPT !._start = Append(@, key)]
    ELSE Returns(Start(m1, key, "d0"), "scene")

AddCreated(m, cs, autoStart, data) ==
    IF cs.err THEN Logged([m EXCEPT !.err = TRUE], "throw", 0, cs.scene.key, data)
    ELSE AddStart(AddScene(m, cs.scene, data), cs.scene.key, autoStart \/ cs.scene.active)

AddKeyed(m, gk, descName, autoStart, data) ==
    IF gk.err THEN Logged([m EXCEPT !.err = TRUE], "throw", 0, gk.key, data)
    ELSE AddCreated(m, CreateScene(m, gk.key, gk.key, descName), autoStart, data)

Add(m, key, descName, autoStart, data) ==
    IF m.isProcessing \/ ~m.isBooted
    THEN AddPending(m, key, descName, autoStart, data)
    ELSE AddKeyed(m, GetKey(m, key, descName), descName, autoStart, data)

(***************************************************************************)
(* The ordering operations.  Indices are 1-based here: index 0 stands for  *)
(* the source's -1, and 0 in scenes stands for a null entry.               *)
(***************************************************************************)
\* the scene exchanged with the last one instead of moved behind it
BringToTopSwap(m, key) ==
    IF m.isProcessing THEN QueueOp(m, "bringToTop", key, NoKey, "d0")
    ELSE LET index == GetIndex(m, key) IN
         IF index # 0 /\ index <= Len(m.scenes)
         THEN [m EXCEPT !.scenes = [@ EXCEPT ![index] = m.scenes[Len(m.scenes)],
                                             ![Len(m.scenes)] = GetScene(m, key)],
                        !.ret = "this"]
         ELSE [m EXCEPT !.ret = "this"]

BringToTop(m, key) ==
    IF m.isProcessing THEN QueueOp(m, "bringToTop", key, NoKey, "d0")
    ELSE LET index == GetIndex(m, key) IN
         IF index # 0 /\ index <= Len(m.scenes)
         THEN [m EXCEPT !.scenes = Append(RemoveAt(@, index), GetScene(m, key)),
                        !.ret = "this"]
         ELSE [m EXCEPT !.ret = "this"]

SendToBack(m, key) ==
    IF m.isProcessing THEN QueueOp(m, "sendToBack", key, NoKey, "d0")
    ELSE LET index == GetIndex(m, key) IN
         IF index # 0 /\ index > 1
         THEN [m EXCEPT !.scenes = <<GetScene(m, key)>> \o RemoveAt(@, index),
                        !.ret = "this"]
         ELSE [m EXCEPT !.ret = "this"]

MoveDown(m, key) ==
    IF m.isProcessing THEN QueueOp(m, "moveDown", key, NoKey, "d0")
    ELSE LET indexA == GetIndex(m, key) IN
         IF indexA > 1
         THEN [m EXCEPT !.scenes = [@ EXCEPT ![indexA] = m.scenes[indexA - 1],
                                             ![indexA - 1] = GetScene(m, key)],
                        !.ret = "this"]
         ELSE [m EXCEPT !.ret = "this"]

\* indexA = -1 (the scene is not in the list) passes the test
\* indexA < length - 1 when the list is not empty: scenes[-1] = sceneB sets a
\* property outside the list, and scenes[0] is overwritten with sceneA, which
\* is null for a key that names no scene
MoveUp(m, key) ==
    IF m.isProcessing THEN QueueOp(m, "moveUp", key, NoKey, "d0")
    ELSE LET indexA == GetIndex(m, key) IN
         IF indexA < Len(m.scenes)
         THEN [m EXCEPT !.scenes = IF indexA = 0
                                   THEN [@ EXCEPT ![1] = GetScene(m, key)]
                                   ELSE [@ EXCEPT ![indexA] = m.scenes[indexA + 1],
                                                  ![indexA + 1] = GetScene(m, key)],
                        !.ret = "this"]
         ELSE [m EXCEPT !.ret = "this"]

\* the first scene named moved above the second, instead of the second
\* above the first
MoveAboveFirstMoved(m, keyA, keyB) ==
    IF keyA = keyB THEN [m EXCEPT !.ret = "this"]
    ELSE IF m.isProcessing THEN QueueOp(m, "moveAbove", keyA, keyB, "d0")
    ELSE LET indexA == GetIndex(m, keyA)
             indexB == GetIndex(m, keyB)
         IN IF indexA # 0 /\ indexB # 0 /\ indexA < indexB
            THEN [m EXCEPT !.scenes = InsertAt(RemoveAt(@, indexA), indexB,
                                               m.scenes[indexA]),
                           !.ret = "this"]
            ELSE [m EXCEPT !.ret = "this"]

\* the scene put back just below A instead of just above it
MoveAboveBefore(m, keyA, keyB) ==
    IF keyA = keyB THEN [m EXCEPT !.ret = "this"]
    ELSE IF m.isProcessing THEN QueueOp(m, "moveAbove", keyA, keyB, "d0")
    ELSE LET indexA == GetIndex(m, keyA)
             indexB == GetIndex(m, keyB)
         IN IF indexA # 0 /\ indexB # 0 /\ indexB < indexA
            THEN [m EXCEPT !.scenes = InsertAt(RemoveAt(@, indexB), indexA - 1,
                                               m.scenes[indexB]),
                           !.ret = "this"]
            ELSE [m EXCEPT !.ret = "this"]

MoveAbove(m, keyA, keyB) ==
    IF keyA = keyB THEN [m EXCEPT !.ret = "this"]
    ELSE IF m.isProcessing THEN QueueOp(m, "moveAbove", keyA, keyB, "d0")
    ELSE LET indexA == GetIndex(m, keyA)
             indexB == GetIndex(m, keyB)
         IN IF indexA # 0 /\ indexB # 0 /\ indexB < indexA
            THEN [m EXCEPT !.scenes = InsertAt(RemoveAt(@, indexB), indexA, m.scenes[indexB]),
                           !.ret = "this"]
            ELSE [m EXCEPT !.ret = "this"]

MoveBelow(m, keyA, keyB) ==
    IF keyA = keyB THEN [m EXCEPT !.ret = "this"]
    ELSE IF m.isProcessing THEN QueueOp(m, "moveBelow", keyA, keyB, "d0")
    ELSE LET indexA == GetIndex(m, keyA)
             indexB == GetIndex(m, keyB)
         IN IF indexA # 0 /\ indexB # 0 /\ indexB > indexA
            THEN [m EXCEPT !.scenes = IF indexA = 1
                                      THEN <<m.scenes[indexB]>> \o RemoveAt(@, indexB)
                                      ELSE InsertAt(RemoveAt(@, indexB), indexA,
                                                    m.scenes[indexB]),
                           !.ret = "this"]
            ELSE [m EXCEPT !.ret = "this"]

SwapPosition(m, keyA, keyB) ==
    IF keyA = keyB THEN [m EXCEPT !.ret = "this"]
    ELSE IF m.isProcessing THEN QueueOp(m, "swapPosition", keyA, keyB, "d0")
    ELSE LET indexA == GetIndex(m, keyA)
             indexB == GetIndex(m, keyB)
         IN IF indexA # indexB /\ indexA # 0 /\ indexB # 0
            THEN [m EXCEPT !.scenes = [@ EXCEPT ![indexA] = m.scenes[indexB],
                                                ![indexB] = m.scenes[indexA]],
                           !.ret = "this"]
            ELSE [m EXCEPT !.ret = "this"]

OrderOps == {"bringToTop", "sendToBack", "moveDown", "moveUp"}
OrderOps2 == {"moveAbove", "moveBelow", "swapPosition"}

\* this[op](keyA, keyB, data)
Dispatch(m, op, keyA, keyB, data) ==
    CASE op = "remove"       -> Remove(m, keyA)
      [] op = "start"        -> Start(m, keyA, IF keyB = NoKey THEN "d0" ELSE keyB)
      [] op = "stop"         -> Stop(m, keyA, IF keyB = NoKey THEN "d0" ELSE keyB)
      [] op = "bringToTop"   -> BringToTop(m, keyA)
      [] op = "sendToBack"   -> SendToBack(m, keyA)
      [] op = "moveDown"     -> MoveDown(m, keyA)
      [] op = "moveUp"       -> MoveUp(m, keyA)
      [] op = "moveAbove"    -> MoveAbove(m, keyA, keyB)
      [] op = "moveBelow"    -> MoveBelow(m, keyA, keyB)
      [] op = "swapPosition" -> SwapPosition(m, keyA, keyB)

(***************************************************************************)
(* The loop that starts the collected keys: for (i = 0; i < _start.length; *)
(* i++) start(_start[i]), the length read again at every turn.             *)
(***************************************************************************)
RECURSIVE DrainStart(_, _)
DrainStart(m, i) ==
    IF i > Len(m._start) THEN m
    ELSE DrainStart(Start(Logged(m, "drain", 0, m._start[i], "d0"), m._start[i], "d0"), i + 1)

(***************************************************************************)
(* bootQueue()                                                             *)
(***************************************************************************)
\* every staged scene collected for starting, marked or not
BootAdmitStartAll(m, i, entry, cs, inject) ==
    Logged([m EXCEPT !.objs = Append(@, IF inject.has
                                        THEN [cs.scene EXCEPT !.data = inject.data]
                                        ELSE cs.scene),
                     !.keys[cs.scene.key] = Len(m.objs) + 1,
                     !.scenes = Append(@, Len(m.objs) + 1),
                     !._pending[i].autoStart = @ \/ (inject.has /\ inject.autoStart),
                     !._start = Append(@, cs.scene.key)],
           "admit", Len(m.objs) + 1, cs.scene.key,
           IF inject.has THEN inject.data ELSE cs.scene.data)

\* one staged entry, the i-th of _pending: the scene is created, keyed,
\* listed, given the data staged for its key and collected for starting; a
\* start buffered for the key sets autoStart in the entry itself
BootAdmit(m, i, entry, cs, inject) ==
    Logged([m EXCEPT !.objs = Append(@, IF inject.has
                                        THEN [cs.scene EXCEPT !.data = inject.data]
                                        ELSE cs.scene),
                     !.keys[cs.scene.key] = Len(m.objs) + 1,
                     !.scenes = Append(@, Len(m.objs) + 1),
                     !._pending[i].autoStart = @ \/ (inject.has /\ inject.autoStart),
                     !._start = IF entry.autoStart \/ (inject.has /\ inject.autoStart)
                                   \/ cs.scene.active
                                THEN Append(@, cs.scene.key) ELSE @],
           "admit", Len(m.objs) + 1, cs.scene.key,
           IF inject.has THEN inject.data ELSE cs.scene.data)

BootEntry(m, i, entry, cs) ==
    IF cs.err THEN Logged([m EXCEPT !.err = TRUE], "throw", 0, cs.scene.key, "d0")
    ELSE BootAdmit(m, i, entry, cs, m._data[cs.scene.key])

RECURSIVE BootLoop(_, _)
BootLoop(m, i) ==
    IF i > Len(m._pending) \/ m.err THEN m
    ELSE BootLoop(BootEntry(m, i, m._pending[i],
                            CreateScene(m, m._pending[i].key,
                                        DescOf(m._pending[i].scene).cfgKey,
                                        m._pending[i].scene)),
                  i + 1)

BootStart(m1) ==
    IF m1.err THEN m1
    ELSE [DrainStart([m1 EXCEPT !._pending = <<>>,
                                !._data = [k \in AllKeys |-> NoData],
                                !.isBooted = TRUE], 1)
             EXCEPT !._start = <<>>]

BootQueue(m) ==
    IF m.isBooted THEN m
    ELSE BootStart(BootLoop([m EXCEPT !.systemScene = "scene"], 1))

(***************************************************************************)
(* processQueue()                                                          *)
(***************************************************************************)
RECURSIVE PendingLoop(_, _, _)
PendingLoop(m, i, pendingLength) ==
    IF i > pendingLength \/ m.err THEN m
    ELSE PendingLoop(Add(m, m._pending[i].key, m._pending[i].scene,
                         m._pending[i].autoStart, m._pending[i].data),
                     i + 1, pendingLength)

\* an operation that queues itself again when it runs while isProcessing
Requeues(m, entry) ==
    /\ m.isProcessing
    /\ \/ entry.op \in {"remove"} \cup OrderOps
       \/ entry.op \in OrderOps2 /\ entry.keyA # entry.keyB

\* for (i = 0; i < this._queue.length; i++), the length read again at every
\* turn: an entry that queues itself again adds one entry at the end, so the
\* entries behind it are still dispatched; once every entry left queues
\* itself again the loop never ends
RECURSIVE QueueLoop(_, _)
QueueLoop(m, i) ==
    IF i > Len(m._queue) THEN m
    ELSE IF \A j \in i..Len(m._queue) : Requeues(m, m._queue[j])
    THEN [m EXCEPT !.hung = TRUE]
    ELSE QueueLoop(Dispatch(Logged(Logged(m, "replay", i, m._queue[i].keyA, m._queue[i].op),
                                   "arg", i, m._queue[i].keyB, m._queue[i].data),
                            m._queue[i].op, m._queue[i].keyA, m._queue[i].keyB,
                            m._queue[i].data),
                   i + 1)

\* the collected starts, then both pending lists cleared
PendingStart(p) ==
    IF p.err THEN p
    ELSE [DrainStart(p, 1) EXCEPT !._start = <<>>, !._pending = <<>>]

QueueClear(m2) == IF m2.err \/ m2.hung THEN m2 ELSE [m2 EXCEPT !._queue = <<>>]

QueueReplay(m1) == IF m1.err THEN m1 ELSE QueueClear(QueueLoop(m1, 1))

\* the queue replayed before the pending admissions
PendingAfter(q) ==
    IF Len(q._pending) > 0 THEN PendingStart(PendingLoop(q, 1, Len(q._pending))) ELSE q

ProcessQueueReplayFirst(m) ==
    IF Len(m._pending) = 0 /\ Len(m._queue) = 0 THEN m
    ELSE PendingAfter(QueueReplay(m))

ProcessQueue(m) ==
    IF Len(m._pending) = 0 /\ Len(m._queue) = 0 THEN m
    ELSE QueueReplay(IF Len(m._pending) > 0
                     THEN PendingStart(PendingLoop(m, 1, Len(m._pending)))
                     ELSE m)

\* processQueue() called from outside: it returns nothing
ProcessQueueCall(m) ==
    IF ProcessQueue(m).err \/ ProcessQueue(m).hung THEN ProcessQueue(m)
    ELSE Returns(ProcessQueue(m), "undefined")

(***************************************************************************)
(* update(time, delta) and render(renderer)                                *)
(***************************************************************************)
\* sys.step: the per-frame step calls the installed hook
SysStep(m, id) ==
    IF m.objs[id].hook = "update"
    THEN RunCallback(Logged(m, "step", id, m.objs[id].key, "d0"), id, "update")
    ELSE Logged(m, "step", id, m.objs[id].key, "d0")

\* the pass stepping paused scenes as well
RECURSIVE UpdateLoopPaused(_, _)
UpdateLoopPaused(m, i) ==
    IF i < 1 \/ m.err THEN m
    ELSE IF m.scenes[i] = 0 THEN [m EXCEPT !.err = TRUE]
    ELSE UpdateLoopPaused(IF m.objs[m.scenes[i]].status > START
                             /\ m.objs[m.scenes[i]].status <= PAUSED
                          THEN SysStep(m, m.scenes[i]) ELSE m,
                          i - 1)

RECURSIVE UpdateLoop(_, _)
UpdateLoop(m, i) ==
    IF i < 1 \/ m.err THEN m
    ELSE IF m.scenes[i] = 0 THEN [m EXCEPT !.err = TRUE]
    ELSE UpdateLoop(IF m.objs[m.scenes[i]].status > START
                       /\ m.objs[m.scenes[i]].status <= RUNNING
                    THEN SysStep(m, m.scenes[i]) ELSE m,
                    i - 1)

UpdatePass(m1) ==
    IF m1.err \/ m1.hung THEN m1
    ELSE UpdateLoop(Logged([m1 EXCEPT !.isProcessing = TRUE, !.frame = m1.scenes],
                           "pass", 0, "update", "d0"),
                    Len(m1.scenes))

\* update that goes to the scenes without flushing first
UpdateNoFlush(m) == UpdatePass(m)

Update(m) == UpdatePass(ProcessQueue(m))

\* the render pass without the test of the visible flag
RECURSIVE RenderLoopAll(_, _)
RenderLoopAll(m, i) ==
    IF i > Len(m.scenes) \/ m.err THEN m
    ELSE IF m.scenes[i] = 0 THEN [m EXCEPT !.err = TRUE]
    ELSE RenderLoopAll(IF m.objs[m.scenes[i]].status >= LOADING
                          /\ m.objs[m.scenes[i]].status < SLEEPING
                       THEN Logged(m, "render", m.scenes[i], m.objs[m.scenes[i]].key, "d0")
                       ELSE m,
                       i + 1)

RECURSIVE RenderLoop(_, _)
RenderLoop(m, i) ==
    IF i > Len(m.scenes) \/ m.err THEN m
    ELSE IF m.scenes[i] = 0 THEN [m EXCEPT !.err = TRUE]
    ELSE RenderLoop(IF m.objs[m.scenes[i]].visible /\ m.objs[m.scenes[i]].status >= LOADING
                       /\ m.objs[m.scenes[i]].status < SLEEPING
                    THEN Logged(m, "render", m.scenes[i], m.objs[m.scenes[i]].key, "d0")
                    ELSE m,
                    i + 1)

\* render that returns without resetting isProcessing
RenderDoneStillProcessing(m1) == m1

RenderDone(m1) == IF m1.err THEN m1 ELSE [m1 EXCEPT !.isProcessing = FALSE]

Render(m) == RenderDone(RenderLoop(m, 1))

(***************************************************************************)
(* destroy(): the listed scenes destroyed in list order, then the system   *)
(* scene; reading .sys of a null entry or of a null systemScene throws.    *)
(***************************************************************************)
RECURSIVE DestroyLoop(_, _)
DestroyLoop(m, i) ==
    IF i > Len(m.scenes) \/ m.err THEN m
    ELSE IF m.scenes[i] = 0 THEN [m EXCEPT !.err = TRUE]
    ELSE DestroyLoop(Logged([m EXCEPT !.objs[m.scenes[i]] = SysDestroy(@)],
                            "destroy", m.scenes[i], m.objs[m.scenes[i]].key, "d0"),
                     i + 1)

DestroyDone(m1) ==
    IF m1.err THEN m1
    ELSE IF m1.systemScene # "scene" THEN [m1 EXCEPT !.err = TRUE]
    ELSE Logged([m1 EXCEPT !.systemScene = "destroyed",
                           !.scenes = <<>>, !._pending = <<>>,
                           !._start = <<>>, !._queue = <<>>,
                           !.ret = "undefined"],
                "destroy", 0, "__SYSTEM", "d0")

Destroy(m) == DestroyDone(DestroyLoop(m, 1))

\* this.update: the update method, or the no-op destroy() put in its place
ThisUpdate(m) == IF m.systemScene = "destroyed" THEN m ELSE Update(m)

(***************************************************************************)
(* The loader's COMPLETE event for scene id: the handlers registered with  *)
(* once run in registration order and are unregistered.                    *)
(***************************************************************************)
RECURSIVE Emit(_, _, _)
Emit(m, id, hs) ==
    IF hs = <<>> THEN m
    ELSE Emit(IF Head(hs) = "loadComplete"
              THEN Create(Logged(m, "loadComplete", id, m.objs[id].key, "d0"), id)
              ELSE BootScene(Logged(m, "payloadComplete", id, m.objs[id].key, "d0"), id),
              id, Tail(hs))

LoaderComplete(m, id) ==
    Emit([m EXCEPT !.objs[id].loading = FALSE, !.objs[id].listeners = <<>>],
         id, m.objs[id].listeners)

(***************************************************************************)
(* RequestAnimationFrame (dom/RequestAnimationFrame): the object's fields, *)
(* and the window's side: frames holds the ids of the pending              *)
(* requestAnimationFrame requests for step, timers the ids of the pending  *)
(* setTimeout timers for stepTimeout; the window numbers the two kinds     *)
(* separately.  op is the last operation, invoked the callbacks it called, *)
(* stopped whether stop() has returned with no start() called since.       *)
(***************************************************************************)
RafNew ==
    [isRunning |-> FALSE, callback |-> "NOOP", isSetTimeOut |-> FALSE, timeOutID |-> 0,
     delay |-> 0, frames |-> {}, timers |-> {}, nextFrame |-> 1, nextTimer |-> 1,
     op |-> "new", invoked |-> <<>>, stopped |-> FALSE]

\* window.requestAnimationFrame(this.stepBound), the id kept in timeOutID
RequestFrame(r) ==
    [r EXCEPT !.frames = @ \cup {r.nextFrame}, !.timeOutID = r.nextFrame,
              !.nextFrame = @ + 1]

\* window.setTimeout(this.stepTimeoutBound, delay), the id kept in timeOutID
SetTimer(r) ==
    [r EXCEPT !.timers = @ \cup {r.nextTimer}, !.timeOutID = r.nextTimer,
              !.nextTimer = @ + 1]

RafStart(r, callback, forceSetTimeOut, delay) ==
    IF r.isRunning THEN [r EXCEPT !.stopped = FALSE]
    ELSE IF forceSetTimeOut
    THEN SetTimer([r EXCEPT !.stopped = FALSE, !.callback = callback,
                            !.isSetTimeOut = TRUE, !.delay = delay, !.isRunning = TRUE])
    ELSE RequestFrame([r EXCEPT !.stopped = FALSE, !.callback = callback,
                                !.isSetTimeOut = FALSE, !.delay = delay, !.isRunning = TRUE])

RafStop(r) ==
    IF r.isSetTimeOut
    THEN [r EXCEPT !.isRunning = FALSE, !.stopped = TRUE, !.timers = @ \ {r.timeOutID}]
    ELSE [r EXCEPT !.isRunning = FALSE, !.stopped = TRUE, !.frames = @ \ {r.timeOutID}]

\* destroy(): stop(), then the callback replaced by NOOP
RafDestroy(r) == [RafStop(r) EXCEPT !.callback = "NOOP"]

\* what the user's callback does with the object when it is called
RafScripts == {"nop", "stop", "start", "stopStart", "stopStartTimeout", "destroy"}

\* the scripts the installed callback can run: NOOP does nothing
RafScriptsOf(r) == IF r.callback = "NOOP" THEN {"nop"} ELSE RafScripts

\* this.callback(time): the callback is recorded and makes its calls
RafCallback(r, script) ==
    LET r1 == [r EXCEPT !.invoked = Append(@, r.callback)] IN
    CASE script = "nop"   -> r1
      [] script = "stop"  -> RafStop(r1)
      [] script = "destroy" -> RafDestroy(r1)
      [] script = "start" -> RafStart(r1, "cb2", ~r1.isSetTimeOut, 0)
      [] script = "stopStart" -> RafStart(RafStop(r1), r1.callback, r1.isSetTimeOut, 0)
      [] script = "stopStartTimeout" -> RafStart(RafStop(r1), r1.callback, TRUE, 0)

RafStepAfter(r1) == IF r1.isRunning THEN RequestFrame(r1) ELSE r1

\* step(time)
RafStep(r, script) == RafStepAfter(RafCallback(r, script))

\* stepTimeout()
RafStepTimeout(r, script) == RafCallback(IF r.isRunning THEN SetTimer(r) ELSE r, script)

RafDone(r, op) ==
    /\ raf' = [r EXCEPT !.op = op]
    /\ UNCHANGED <<keys, scenes, _pending, _start, _queue, _data, isProcessing, isBooted,
                   systemScene, readyFired, objs, log, lastCall, thrown, ret, frame, ncalls,
                   padCall>>

RafFresh(r) == [r EXCEPT !.invoked = <<>>]

RafCanSchedule == raf.nextFrame <= MaxHandles /\ raf.nextTimer <= MaxHandles

CallRafStart ==
    /\ RafCanSchedule
    /\ \E callback \in {"cb1", "cb2"}, forceSetTimeOut \in BOOLEAN :
          RafDone(RafStart(RafFresh(raf), callback, forceSetTimeOut, 0), "start")

CallRafStop ==
    /\ raf.op # "stop"
    /\ RafDone(RafStop(RafFresh(raf)), "stop")

CallRafDestroy ==
    /\ raf.op # "destroy"
    /\ RafDone(RafDestroy(RafFresh(raf)), "destroy")

\* the window runs a pending frame request
FrameFires ==
    /\ RafCanSchedule
    /\ \E id \in raf.frames, script \in RafScriptsOf(raf) :
          RafDone(RafStep([RafFresh(raf) EXCEPT !.frames = @ \ {id}], script), "frame")

\* the window runs a pending timer
TimerFires ==
    /\ RafCanSchedule
    /\ \E id \in raf.timers, script \in RafScriptsOf(raf) :
          RafDone(RafStepTimeout([RafFresh(raf) EXCEPT !.timers = @ \ {id}], script), "timeout")

(***************************************************************************)
(* Pad (utils/string/Pad.ts).  A string is a sequence of characters.       *)
(* String.prototype.repeat raises a RangeError for a negative count; a     *)
(* result is the string returned, or thrown when an error left the call.   *)
(***************************************************************************)
Returned(s) == [thrown |-> FALSE, out |-> s]

RangeError == [thrown |-> TRUE, out |-> <<>>]

\* pad.repeat(count)
Repeat(pad, count) ==
    IF count < 0 THEN RangeError ELSE Returned([i \in 1..count |-> pad])

\* a + b + c of the results of three expressions evaluated left to right
Concat(a, b, c) ==
    IF a.thrown \/ b.thrown \/ c.thrown THEN RangeError
    ELSE Returned(a.out \o b.out \o c.out)

\* Math.ceil(padlen / 2)
CeilHalf(padlen) == -((-padlen) \div 2)

Pad(str, len, pad, dir) ==
    IF len + 1 < Len(str) THEN Returned(str)
    ELSE CASE dir = 1 -> Concat(Repeat(pad, len - Len(str)), Returned(str), Returned(<<>>))
           [] dir = 3 -> Concat(Repeat(pad, (len - Len(str)) - CeilHalf(len - Len(str))),
                                Returned(str),
                                Repeat(pad, CeilHalf(len - Len(str))))
           [] OTHER   -> Concat(Returned(str), Repeat(pad, len - Len(str)), Returned(<<>>))

PadNone == [phase |-> "none"]

\* the strings of at most n characters
Strings(n) == UNION {[1..k -> {"a", "b"}] : k \in 0..n}

PadInputs ==
    [phase : {"call"}, str : Strings(MaxStr), len : 0..MaxPadLen, pad : {"-", "*"},
     dir : {1, 2, 3}]

CallPad ==
    /\ padCall.phase = "call"
    /\ padCall' = [phase |-> "done", str |-> padCall.str, len |-> padCall.len,
                   pad |-> padCall.pad, dir |-> padCall.dir,
                   result |-> Pad(padCall.str, padCall.len, padCall.pad, padCall.dir)]
    /\ UNCHANGED <<keys, scenes, _pending, _start, _queue, _data, isProcessing, isBooted,
                   systemScene, readyFired, objs, log, lastCall, thrown, ret, frame, ncalls,
                   raf>>

(***************************************************************************)
(* The state machine.  log, lastCall, thrown, ret and frame record the     *)
(* last call: the callbacks and steps it ran, in order, its name and       *)
(* arguments, whether it raised an error ("error") or never returned       *)
(* ("hang"), what it returned, and the scenes list the last update pass    *)
(* iterated.                                                               *)
(***************************************************************************)
Staged(sceneConfig) ==
    [i \in 1..Len(sceneConfig) |->
        [key |-> "default", scene |-> sceneConfig[i], autoStart |-> (i = 1), data |-> "d0"]]

ManagerNew(configs) ==
    /\ \E sceneConfig \in configs : _pending = Staged(sceneConfig)
    /\ keys = [k \in AllKeys |-> 0]
    /\ scenes = <<>>
    /\ _start = <<>>
    /\ _queue = <<>>
    /\ _data = [k \in AllKeys |-> NoData]
    /\ isProcessing = FALSE
    /\ isBooted = FALSE
    /\ systemScene = "null"
    /\ readyFired = FALSE
    /\ objs = <<>>
    /\ log = <<>>
    /\ lastCall = [op |-> "new", keyA |-> NoKey, keyB |-> NoKey, data |-> "d0"]
    /\ thrown = "none"
    /\ ret = "this"
    /\ frame = <<>>
    /\ ncalls = 0

InitWith(configs) ==
    /\ ManagerNew(configs)
    /\ raf = RafNew
    /\ padCall = PadNone

Call(op, keyA, keyB, data) == [op |-> op, keyA |-> keyA, keyB |-> keyB, data |-> data]

Commit(n, call) ==
    /\ keys' = n.keys
    /\ scenes' = n.scenes
    /\ _pending' = n._pending
    /\ _start' = n._start
    /\ _queue' = n._queue
    /\ _data' = n._data
    /\ isProcessing' = n.isProcessing
    /\ isBooted' = n.isBooted
    /\ systemScene' = n.systemScene
    /\ objs' = n.objs
    /\ log' = n.log
    /\ lastCall' = call
    /\ thrown' = IF n.hung THEN "hang" ELSE IF n.err THEN "error" ELSE "none"
    /\ ret' = n.ret
    /\ frame' = n.frame
    /\ raf' = raf
    /\ padCall' = padCall

Alive == thrown # "hang"

\* a call made by user code between the frame passes or between frames
External == Alive /\ ncalls < MaxCalls /\ ncalls' = ncalls + 1 /\ UNCHANGED readyFired

CanQueue == isProcessing => Len(_queue) < MaxQueue

\* the game's READY event, delivered once
Ready ==
    /\ Alive /\ ~readyFired
    /\ readyFired' = TRUE
    /\ Commit(BootQueue(Mgr), Call("boot", NoKey, NoKey, "d0"))
    /\ UNCHANGED ncalls

\* the frame driver runs once READY has fired and calls update, then render
FrameUpdate ==
    /\ Alive /\ readyFired /\ ~isProcessing
    /\ Len(objs) + Len(_pending) <= MaxScenes
    /\ Commit(ThisUpdate(Mgr), Call("update", NoKey, NoKey, "d0"))
    /\ UNCHANGED <<readyFired, ncalls>>

\* update called by a driver that does not wait for the boot or for render
CallUpdate ==
    /\ Alive
    /\ Len(objs) + Len(_pending) <= MaxScenes
    /\ Commit(ThisUpdate(Mgr), Call("update", NoKey, NoKey, "d0"))
    /\ UNCHANGED <<readyFired, ncalls>>

\* processQueue called by user code: the flush without the pass
CallProcessQueue ==
    /\ External
    /\ Len(objs) + Len(_pending) <= MaxScenes
    /\ Commit(ProcessQueueCall(Mgr), Call("processQueue", NoKey, NoKey, "d0"))

FrameRender ==
    /\ Alive /\ readyFired /\ isProcessing
    /\ Commit(Render(Mgr), Call("render", NoKey, NoKey, "d0"))
    /\ UNCHANGED <<readyFired, ncalls>>

LoaderDone ==
    /\ Alive
    /\ \E id \in 1..Len(objs) :
          /\ objs[id].loading
          /\ Commit(LoaderComplete(Mgr, id), Call("complete", objs[id].key, NoKey, "d0"))
    /\ UNCHANGED <<readyFired, ncalls>>

\* the COMPLETE event of a loader whose scene was shut down while it loaded
LoaderLate ==
    /\ Alive
    /\ \E id \in 1..Len(objs) :
          /\ objs[id].status = SHUTDOWN
          /\ ~objs[id].loading
          /\ Commit(LoaderComplete(Mgr, id),
                    Call("complete", objs[id].key, NoKey, "d0"))
    /\ UNCHANGED <<readyFired, ncalls>>

CallAdd(descs) ==
    /\ External
    /\ Len(objs) + Len(_pending) < MaxScenes
    /\ \E key \in CallKeys, d \in descs, autoStart \in BOOLEAN, data \in {"d1"} :
          Commit(Add(Mgr, key, d, autoStart, data),
                 Call("add", key, IF autoStart THEN "auto" ELSE "noauto", data))

CallRemove ==
    /\ External /\ CanQueue
    /\ \E key \in CallKeys : Commit(Remove(Mgr, key), Call("remove", key, NoKey, "d0"))

CallStart ==
    /\ External
    /\ \E key \in CallKeys, data \in {"d1"} :
          Commit(Start(Mgr, key, data), Call("start", key, NoKey, data))

CallStop ==
    /\ External
    /\ \E key \in CallKeys : Commit(Stop(Mgr, key, "d0"), Call("stop", key, NoKey, "d0"))

CallPause ==
    /\ External
    /\ \E key \in CallKeys : Commit(Pause(Mgr, key), Call("pause", key, NoKey, "d0"))

CallResume ==
    /\ External
    /\ \E key \in CallKeys, data \in {"d1"} :
          Commit(Resume(Mgr, key, data), Call("resume", key, NoKey, data))

CallSleep ==
    /\ External
    /\ \E key \in CallKeys : Commit(Sleep(Mgr, key), Call("sleep", key, NoKey, "d0"))

CallWake ==
    /\ External
    /\ \E key \in CallKeys, data \in {"d1"} :
          Commit(Wake(Mgr, key, data), Call("wake", key, NoKey, data))

CallDestroy ==
    /\ External
    /\ Commit(Destroy(Mgr), Call("destroy", NoKey, NoKey, "d0"))

CallRun ==
    /\ External /\ CanQueue
    /\ \E key \in CallKeys, data \in {"d1"} :
          Commit(Run(Mgr, key, data), Call("run", key, NoKey, data))

CallSwitch ==
    /\ External
    /\ \E from \in CallKeys, to \in CallKeys, data \in {"d1"} :
          Commit(Switch(Mgr, from, to, data), Call("switch", from, to, data))

CallOrder ==
    /\ External /\ CanQueue
    /\ \E op \in OrderOps, key \in CallKeys :
          Commit(Dispatch(Mgr, op, key, NoKey, "d0"), Call(op, key, NoKey, "d0"))

CallOrder2 ==
    /\ External /\ CanQueue
    /\ \E op \in OrderOps2, keyA \in CallKeys, keyB \in CallKeys :
          Commit(Dispatch(Mgr, op, keyA, keyB, "d0"), Call(op, keyA, keyB, "d0"))

\* the Scene Plugin begins or ends a transition of a running scene
Transition ==
    /\ External
    /\ \E id \in 1..Len(objs) :
          /\ objs[id].status = RUNNING
          /\ Commit([Mgr EXCEPT !.objs[id].isTransition = ~@],
                    Call("transition", objs[id].key, NoKey, "d0"))

(***************************************************************************)
(* Spec: the deferred operations.  Scenes with and without an update       *)
(* callback, removed and reordered from outside and from the update        *)
(* callback, inside and outside the frame passes.                          *)
(***************************************************************************)
QueueDescs == {"ObjPlain", "ObjFull"}

Init == InitWith({<<>>, <<"ObjKeyA", "ObjPlain">>})

Next ==
    \/ Ready
    \/ FrameUpdate
    \/ FrameRender
    \/ LoaderDone
    \/ CallAdd(QueueDescs)
    \/ CallRemove
    \/ CallStart
    \/ CallOrder
    \/ CallOrder2
    \/ Transition

Spec == Init /\ [][Next]_vars

(***************************************************************************)
(* SpecFlush: the flush alone: admissions deferred during a frame and      *)
(* removals and reorderings queued during it, replayed by the next update. *)
(***************************************************************************)
FlushDescs == {"ObjPlain"}

NextFlush ==
    \/ Ready
    \/ FrameUpdate
    \/ FrameRender
    \/ CallAdd(FlushDescs)
    \/ CallRemove
    \/ CallOrder2

SpecFlush == Init /\ [][NextFlush]_vars

(***************************************************************************)
(* SpecAdmit: admission under every descriptor form, staged before boot,   *)
(* added after boot and deferred to the next flush, scenes that remove     *)
(* themselves from their init, preload or create callback included.        *)
(***************************************************************************)
AdmitDescs == {"ObjPlain", "ObjInitRemove", "ObjPreRemove", "ObjSelfRemove", "InstA", "ClassA",
               "PlainFn"}

InitAdmit == InitWith({<<>>, <<"ObjPlain">>, <<"InstA", "InstA">>, <<"ObjPlain", "ClassA">>})

NextAdmit ==
    \/ Ready
    \/ FrameUpdate
    \/ FrameRender
    \/ CallAdd(AdmitDescs)

SpecAdmit == InitAdmit /\ [][NextAdmit]_vars

(***************************************************************************)
(* SpecLife: the lifecycle of a scene: started, restarted and stopped from *)
(* outside and from its own callbacks, with and without a preload and a    *)
(* pack.                                                                   *)
(***************************************************************************)
LifeDescs == {"ObjFull", "ObjInitRestart", "ObjPreRestart", "ObjCreateRestart", "ObjPack"}

InitLife == InitWith({<<>>, <<"ObjPreRestart">>})

NextLife ==
    \/ Ready
    \/ FrameUpdate
    \/ FrameRender
    \/ LoaderDone
    \/ CallAdd(LifeDescs)
    \/ CallStart
    \/ CallStop
    \/ CallPause
    \/ CallSleep

SpecLife == InitLife /\ [][NextLife]_vars

(***************************************************************************)
(* SpecBoot: scenes staged before the boot, by the constructor and by add, *)
(* starts buffered before the boot, and the boot itself; then adds made    *)
(* between and during frames.                                              *)
(***************************************************************************)
BootDescs == {"ObjPlain", "ObjInit", "ObjInitRestart", "ClassA"}

InitBoot == InitWith({<<>>, <<"ObjKeyA", "ObjPlain">>})

NextBoot ==
    \/ Ready
    \/ FrameUpdate
    \/ FrameRender
    \/ CallAdd(BootDescs)
    \/ CallStart

SpecBoot == InitBoot /\ [][NextBoot]_vars

(***************************************************************************)
(* SpecRun: run, switch and wake on scenes that are idle, running, paused  *)
(* and sleeping, and on a key whose admission is pending.                  *)
(***************************************************************************)
RunDescs == {"ObjInit"}

InitRun == InitWith({<<"ObjRunA">>, <<"ObjRunA", "ObjKeyB">>, <<"ObjRunA", "ObjKeyBActive">>})

NextRun ==
    \/ Ready
    \/ FrameUpdate
    \/ FrameRender
    \/ CallAdd(RunDescs)
    \/ CallPause
    \/ CallSleep
    \/ CallRun
    \/ CallSwitch
    \/ CallWake

SpecRun == InitRun /\ [][NextRun]_vars

(***************************************************************************)
(* SpecOrder: the ordering operations, start and run, on three and on two  *)
(* staged scenes, with keys that are admitted and a key that is not,       *)
(* called between frames and replayed from the queue.                      *)
(***************************************************************************)
InitOrder == InitWith({<<"ObjRunA", "ObjKeyB", "ObjPlain">>, <<"ObjRunA", "ObjPlain">>})

NextOrder ==
    \/ Ready
    \/ FrameUpdate
    \/ FrameRender
    \/ CallStart
    \/ CallRun
    \/ CallOrder
    \/ CallOrder2

SpecOrder == InitOrder /\ [][NextOrder]_vars

(***************************************************************************)
(* SpecTrans: remove, sleep and stop on scenes whose transition is under   *)
(* way or not, called between frames, during a frame and from an update    *)
(* callback.                                                               *)
(***************************************************************************)
InitTrans == InitWith({<<"ObjRunA">>, <<"ObjKeyA", "ObjKeyBActive">>})

NextTrans ==
    \/ Ready
    \/ FrameUpdate
    \/ FrameRender
    \/ Transition
    \/ CallRemove
    \/ CallSleep
    \/ CallStop

SpecTrans == InitTrans /\ [][NextTrans]_vars

(***************************************************************************)
(* SpecRender: visible and hidden scenes that are idle, loading, running,  *)
(* paused, sleeping and shut down, seen by the render pass.                *)
(***************************************************************************)
RenderDescs == {"ObjHidden", "ObjFull"}

InitRender == InitWith({<<>>, <<"ObjFull">>})

NextRender ==
    \/ Ready
    \/ FrameUpdate
    \/ FrameRender
    \/ LoaderDone
    \/ CallAdd(RenderDescs)
    \/ CallPause
    \/ CallSleep
    \/ CallStop

SpecRender == InitRender /\ [][NextRender]_vars

(***************************************************************************)
(* SpecGone: scenes that remove themselves from their init, preload or     *)
(* create callback, and scenes removed from outside.                       *)
(***************************************************************************)
GoneDescs == {"ObjInitRemove", "ObjPreRemove", "ObjSelfRemove"}

InitGone == InitWith({<<>>, <<"ObjInitRemove">>})

NextGone ==
    \/ Ready
    \/ FrameUpdate
    \/ FrameRender
    \/ LoaderDone
    \/ CallAdd(GoneDescs)
    \/ CallStart
    \/ CallRemove

SpecGone == InitGone /\ [][NextGone]_vars

(***************************************************************************)
(* SpecDestroy: destroy() called before the boot, between frames and       *)
(* during a frame, with scenes listed, pending and removed, and the frames *)
(* that follow it.                                                         *)
(***************************************************************************)
DestroyDescs == {"ObjPlain"}

InitDestroy == InitWith({<<>>, <<"ObjRunA", "ObjKeyB">>})

NextDestroy ==
    \/ Ready
    \/ FrameUpdate
    \/ FrameRender
    \/ CallAdd(DestroyDescs)
    \/ CallRemove
    \/ CallDestroy

SpecDestroy == InitDestroy /\ [][NextDestroy]_vars

(***************************************************************************)
(* SpecPause: pause, resume, sleep and wake of scenes that are running,    *)
(* paused, sleeping or not started, between frames and during a frame, and *)
(* starts that give the scene new data.                                    *)
(***************************************************************************)
InitPause == InitWith({<<"ObjRunA">>, <<"ObjRunA", "ObjKeyBActive">>, <<"ObjRunA", "ObjKeyB">>})

NextPause ==
    \/ Ready
    \/ FrameUpdate
    \/ FrameRender
    \/ CallStart
    \/ CallPause
    \/ CallResume
    \/ CallSleep
    \/ CallWake

SpecPause == InitPause /\ [][NextPause]_vars

(***************************************************************************)
(* SpecStop: scenes with a preload callback, a pack or both, stopped while *)
(* they load, while they run and from outside the frame, the COMPLETE      *)
(* events that arrive before and after the stop, and restarts.             *)
(***************************************************************************)
StopDescs == {"ObjPack", "ObjPackPre"}

InitStop == InitWith({<<"ObjPreA">>, <<"ObjPreA", "ObjKeyBActive">>})

NextStop ==
    \/ Ready
    \/ FrameUpdate
    \/ FrameRender
    \/ LoaderDone
    \/ LoaderLate
    \/ CallAdd(StopDescs)
    \/ CallStart
    \/ CallStop

SpecStop == InitStop /\ [][NextStop]_vars

(***************************************************************************)
(* SpecHook: scenes with an update callback and a pack or a preload,       *)
(* stepped while they load and while they run, stopped and restarted.      *)
(***************************************************************************)
HookDescs == {"ObjPackUpd", "ObjPreUpd"}

InitHook == InitWith({<<>>, <<"ObjKeyA">>})

NextHook ==
    \/ Ready
    \/ FrameUpdate
    \/ FrameRender
    \/ LoaderDone
    \/ CallAdd(HookDescs)
    \/ CallStart
    \/ CallStop

SpecHook == InitHook /\ [][NextHook]_vars

(***************************************************************************)
(* SpecHeadless: update and processQueue called at any time: before the    *)
(* boot, between frames, and again before render; scenes without an        *)
(* update callback, added, removed and run between and during the passes.  *)
(***************************************************************************)
HeadlessDescs == {"ObjPlain"}

InitHeadless == InitWith({<<>>, <<"ObjRunA">>})

NextHeadless ==
    \/ Ready
    \/ CallUpdate
    \/ CallProcessQueue
    \/ FrameRender
    \/ CallAdd(HeadlessDescs)
    \/ CallRemove
    \/ CallRun

SpecHeadless == InitHeadless /\ [][NextHeadless]_vars

(***************************************************************************)
(* SpecRaf: a RequestAnimationFrame started, stopped and destroyed from    *)
(* outside and from inside its callback, in both modes, and the window     *)
(* running the steps it scheduled.                                         *)
(***************************************************************************)
InitRaf == InitWith({<<>>})

NextRaf ==
    \/ CallRafStart
    \/ CallRafStop
    \/ CallRafDestroy
    \/ FrameFires
    \/ TimerFires

SpecRaf == InitRaf /\ [][NextRaf]_vars

(***************************************************************************)
(* SpecPad: Pad called once on every string, length, pad character and     *)
(* direction of the bounded sets.                                          *)
(***************************************************************************)
InitPad ==
    /\ ManagerNew({<<>>})
    /\ raf = RafNew
    /\ padCall \in PadInputs

NextPad == CallPad

SpecPad == InitPad /\ [][NextPad]_vars

(***************************************************************************)
(* Helpers of the properties.                                              *)
(***************************************************************************)
Range(seq) == {seq[i] : i \in 1..Len(seq)}

Positions(events, e, id) == {p \in 1..Len(events) : events[p].e = e /\ events[p].id = id}

DeferredOps == {"add", "remove"} \cup OrderOps \cup OrderOps2

(***************************************************************************)
(* C1: from the start of update's scene loop to the end of render's scene  *)
(* loop the scenes list is the one the update pass iterated: no add,       *)
(* remove or ordering call made in between, from a scene callback or from  *)
(* outside, changes its contents or order, and render sees what update saw.*)
(***************************************************************************)
C1_ScenesFrozenWhileProcessing ==
    /\ isProcessing => scenes = frame
    /\ (lastCall.op = "render" /\ thrown = "none") => scenes = frame

\* the update callback of an admitted scene has asked for its own removal
\* during the pass, and the scene is still listed
C1_Witness ==
    /\ isProcessing
    /\ lastCall.op = "update"
    /\ \E p \in 1..Len(log) : log[p].e = "update"
    /\ \E i \in 1..Len(_queue) :
          /\ _queue[i].op = "remove"
          /\ keys[_queue[i].keyA] # 0
          /\ keys[_queue[i].keyA] \in Range(scenes)

(***************************************************************************)
(* C2: a remove(k) made while isProcessing leaves scenes and keys as they  *)
(* are and queues the removal; after the next processQueue call, the flush *)
(* of the next update, the scene registered under k is in neither scenes   *)
(* nor keys.  A scene that is in a transition when the flush begins is not *)
(* counted: remove refuses such a scene by design.                         *)
(***************************************************************************)
SceneOf(k) == IF k \in AllKeys THEN keys[k] ELSE 0

C2_Replayed ==
    lastCall'.op = "update" =>
        \A i \in 1..Len(_queue) :
            (/\ _queue[i].op = "remove"
             /\ SceneOf(_queue[i].keyA) # 0
             /\ ~objs[SceneOf(_queue[i].keyA)].isTransition)
            => /\ keys'[_queue[i].keyA] = 0
               /\ SceneOf(_queue[i].keyA) \notin Range(scenes')

C2_Deferred ==
    (lastCall'.op = "remove" /\ isProcessing) =>
        /\ scenes' = scenes
        /\ keys' = keys
        /\ _queue' = Append(_queue, [op |-> "remove", keyA |-> lastCall'.keyA,
                                     keyB |-> NoKey, data |-> "d0"])

C2_DeferredRemove == [][C2_Deferred /\ C2_Replayed]_vars

\* the first half alone: the call itself changes nothing and queues the removal
C2_OnlyQueued == [][C2_Deferred]_vars

(***************************************************************************)
(* C3: an add that raises no error, made while isProcessing or before the  *)
(* boot, returns null, appends one entry to _pending and leaves scenes and *)
(* keys alone; made when booted and not processing it returns the new      *)
(* scene, which is then last in scenes and registered in keys, unless the  *)
(* scene was started by the add and removed itself in its init, preload or *)
(* create callback: the returned scene is then in neither scenes nor keys, *)
(* and scenes is what it was before the add.                               *)
(***************************************************************************)
C3_DeferredAdd ==
    /\ ret' = "null"
    /\ Len(_pending') = Len(_pending) + 1
    /\ SubSeq(_pending', 1, Len(_pending)) = _pending
    /\ _pending'[Len(_pending')].key = lastCall'.keyA
    /\ _pending'[Len(_pending')].data = lastCall'.data
    /\ scenes' = scenes
    /\ keys' = keys
    /\ objs' = objs

C3_Admitted ==
    /\ scenes' = Append(scenes, Len(objs'))
    /\ keys'[objs'[Len(objs')].key] = Len(objs')

C3_SelfRemoved ==
    /\ \E p \in 1..Len(log') : log'[p].e = "destroy" /\ log'[p].id = Len(objs')
    /\ scenes' = scenes
    /\ keys'[objs'[Len(objs')].key] = 0

C3_ImmediateAdd(selfRemoval) ==
    /\ ret' = "scene"
    /\ Len(objs') = Len(objs) + 1
    /\ _pending' = _pending
    /\ C3_Admitted \/ (selfRemoval /\ C3_SelfRemoved)

C3_Add(selfRemoval) ==
    (lastCall'.op = "add" /\ thrown' = "none") =>
        IF isProcessing \/ ~isBooted THEN C3_DeferredAdd ELSE C3_ImmediateAdd(selfRemoval)

C3_AddDeferredOrAdmitted == [][C3_Add(TRUE)]_vars

\* C3 as stated: the returned scene is always in scenes and in keys
C3_AsStated == [][C3_Add(FALSE)]_vars

\* an add made during a frame is waiting in _pending, and a later add, made
\* between frames, has returned its scene, listed last and registered
C3_Witness ==
    /\ lastCall.op = "add" /\ thrown = "none" /\ ret = "scene"
    /\ Len(_pending) = 1
    /\ Len(scenes) >= 1
    /\ scenes[Len(scenes)] = Len(objs)
    /\ keys[objs[Len(objs)].key] = Len(objs)

(***************************************************************************)
(* C4: in the flush at the top of an update every admission of a pending   *)
(* scene comes before every start of a collected key, every such start     *)
(* before every replayed operation, and the replayed operations are the    *)
(* queue's entries in queue order, each with the keyA, keyB and data it    *)
(* was queued with; a flush that raises no error admits every pending      *)
(* entry and replays every queue entry.                                    *)
(***************************************************************************)
C4_Rank(ev) ==
    CASE ev.e = "admit" -> 1
      [] ev.e = "drain" -> 2
      [] ev.e \in {"replay", "arg"} -> 3
      [] OTHER -> 0

\* the part of an update's log that its flush wrote
C4_Flush(events) ==
    IF \E p \in 1..Len(events) : events[p].e = "pass"
    THEN SubSeq(events, 1, (CHOOSE p \in 1..Len(events) : events[p].e = "pass") - 1)
    ELSE events

C4_Phased(f) ==
    \A p, q \in 1..Len(f) :
        (p < q /\ C4_Rank(f[p]) > 0 /\ C4_Rank(f[q]) > 0) => C4_Rank(f[p]) <= C4_Rank(f[q])

C4_Fifo(f, queue, complete) ==
    LET replays == SelectSeq(f, LAMBDA ev : ev.e = "replay")
        args == SelectSeq(f, LAMBDA ev : ev.e = "arg")
    IN /\ Len(replays) <= Len(queue)
       /\ complete => Len(replays) = Len(queue)
       /\ Len(args) = Len(replays)
       /\ \A i \in 1..Len(replays) :
             /\ replays[i].id = i
             /\ replays[i].key = queue[i].keyA
             /\ replays[i].data = queue[i].op
             /\ args[i].key = queue[i].keyB
             /\ args[i].data = queue[i].data

C4_AllAdmitted(f, pending, complete) ==
    complete => Cardinality({p \in 1..Len(f) : f[p].e = "admit"}) = Len(pending)

C4_FlushOrder ==
    [][lastCall'.op = "update" =>
          /\ C4_Phased(C4_Flush(log'))
          /\ C4_Fifo(C4_Flush(log'), _queue, thrown' = "none")
          /\ C4_AllAdmitted(C4_Flush(log'), _pending, thrown' = "none")]_vars

\* one flush has admitted a pending scene, started it and replayed two
\* queued operations
C4_Witness ==
    /\ lastCall.op = "update" /\ thrown = "none"
    /\ \E a, d, r1, r2 \in 1..Len(log) :
          /\ log[a].e = "admit" /\ log[d].e = "drain"
          /\ log[r1].e = "replay" /\ log[r2].e = "replay"
          /\ a < d /\ d < r1 /\ r1 < r2
          /\ log[r1].data # log[r2].data

(***************************************************************************)
(* C5: no call admits a scene under a key that a listed scene already      *)
(* has: whatever the descriptor's form and whether the admission is made   *)
(* by add, by the flush or at boot, the second scene is refused.           *)
(***************************************************************************)
\* scene id is listed when the event at position p of the call's log occurs
C5_ListedAt(events, p, id, before) ==
    /\ \/ id \in Range(before)
       \/ \E r \in 1..(p - 1) : events[r].e = "admit" /\ events[r].id = id
    /\ ~\E r \in 1..(p - 1) : events[r].e = "destroy" /\ events[r].id = id

C5_DuplicateRefused ==
    [][\A p \in 1..Len(log') :
          log'[p].e = "admit" =>
              ~\E id \in 1..Len(objs') :
                  /\ id # log'[p].id
                  /\ objs'[id].key = log'[p].key
                  /\ C5_ListedAt(log', p, id, scenes)]_vars

(***************************************************************************)
(* C6: in every state the scenes listed in scenes have pairwise different  *)
(* keys.                                                                   *)
(***************************************************************************)
C6_KeysUnique ==
    \A i, j \in 1..Len(scenes) :
        (i # j /\ scenes[i] # 0 /\ scenes[j] # 0) =>
            objs[scenes[i]].key # objs[scenes[j]].key

(***************************************************************************)
(* Helpers for the lifecycle properties: the callbacks of a call's log.    *)
(***************************************************************************)
Callbacks == {"init", "preload", "create"}

\* the callbacks of scene id that ran before the call or earlier in it
FiredBefore(events, p, id) ==
    (IF id <= Len(objs) THEN objs[id].fired ELSE {})
        \cup {events[r].e : r \in {r \in 1..(p - 1) : events[r].id = id}}

\* the callback logged at position p calls start on its own scene
StartsItself(events, p) ==
    /\ events[p].e \in Callbacks
    /\ DescOf(objs'[events[p].id].desc)[events[p].e].op = "start"
    /\ events[p].e \notin FiredBefore(events, p, events[p].id)

\* the start made by the callback at position p did nothing: the log goes
\* on without a shutdown or a start of the scene
NotRestarted(events, p) ==
    p < Len(events) =>
        ~(events[p + 1].e \in {"shutdown", "start"} /\ events[p + 1].id = events[p].id)

(***************************************************************************)
(* C7: start(k) on a scene whose status is START, LOADING or CREATING does *)
(* nothing: called from outside on a loading scene it leaves every scene   *)
(* and list as it is and runs no callback; called by the scene's own       *)
(* callback that runs with such a status it shuts nothing down and starts  *)
(* nothing.                                                                *)
(***************************************************************************)
C7_External ==
    (/\ lastCall'.op = "start"
     /\ SceneOf(lastCall'.keyA) # 0
     /\ objs[SceneOf(lastCall'.keyA)].status >= START
     /\ objs[SceneOf(lastCall'.keyA)].status <= CREATING)
    => /\ objs' = objs
       /\ log' = <<>>
       /\ <<keys', scenes', _pending', _start', _queue', _data'>>
             = <<keys, scenes, _pending, _start, _queue, _data>>
       /\ ret' = "this"

C7_Nested ==
    \A p \in 1..Len(log') :
        (/\ StartsItself(log', p)
         /\ log'[p].st >= START
         /\ log'[p].st <= CREATING)
        => NotRestarted(log', p)

C7_StartIdempotent == [][C7_External /\ C7_Nested]_vars

\* a start with new data was made on a loading scene and changed nothing
C7_Witness ==
    /\ lastCall.op = "start" /\ log = <<>>
    /\ SceneOf(lastCall.keyA) # 0
    /\ objs[SceneOf(lastCall.keyA)].status = LOADING
    /\ objs[SceneOf(lastCall.keyA)].data # lastCall.data

(***************************************************************************)
(* C8: every init, preload and create callback runs while its scene's      *)
(* status is within START..CREATING, and a start the callback makes on its *)
(* own scene does nothing.                                                 *)
(***************************************************************************)
C8_StartWindow ==
    [][\A p \in 1..Len(log') :
          log'[p].e \in Callbacks =>
              /\ log'[p].st >= START
              /\ log'[p].st <= CREATING
              /\ StartsItself(log', p) => NotRestarted(log', p)]_vars

(***************************************************************************)
(* C9: start(k, D) on a running, paused or sleeping scene shuts the scene  *)
(* down, then starts it with D: init, if there is one, runs next, with     *)
(* status START and data D; the scene ends with data D, RUNNING if it has  *)
(* no preload (create having run with D) and LOADING if it has one.        *)
(***************************************************************************)
C9_Restarted(id, D, d) ==
    /\ Len(log') >= 2
    /\ log'[1] = Ev("shutdown", id, objs[id].key, "d0", 0)
    /\ log'[2] = Ev("start", id, objs[id].key, D, 0)
    /\ d.init.has => /\ Len(log') >= 3
                     /\ log'[3].e = "init" /\ log'[3].id = id
                     /\ log'[3].st = START /\ log'[3].data = D
    /\ objs'[id].data = D
    /\ ~d.preload.has =>
          /\ objs'[id].status = RUNNING
          /\ log'[Len(log')].e = "created" /\ log'[Len(log')].id = id
          /\ log'[Len(log') - 1].e = "create" /\ log'[Len(log') - 1].id = id
          /\ log'[Len(log') - 1].data = D /\ log'[Len(log') - 1].st = CREATING
    /\ d.preload.has => objs'[id].status = LOADING

C9_LiveRestart ==
    [][(/\ lastCall'.op = "start"
        /\ SceneOf(lastCall'.keyA) # 0
        /\ objs[SceneOf(lastCall'.keyA)].status >= RUNNING
        /\ objs[SceneOf(lastCall'.keyA)].status <= SLEEPING)
       => C9_Restarted(SceneOf(lastCall'.keyA), lastCall'.data,
                       DescOf(objs[SceneOf(lastCall'.keyA)].desc))]_vars

\* a running scene has been started again from outside with new data and
\* runs with it
C9_Witness ==
    /\ lastCall.op = "start"
    /\ Len(log) >= 3
    /\ log[1].e = "shutdown" /\ log[2].e = "start"
    /\ log[Len(log)].e = "created"
    /\ SceneOf(lastCall.keyA) = log[1].id
    /\ objs[log[1].id].status = RUNNING
    /\ objs[log[1].id].data = lastCall.data

(***************************************************************************)
(* C10: the callbacks of a scene run in phases, each opened by a start of  *)
(* the scene or by a COMPLETE handler (loadComplete, payloadComplete); in  *)
(* a phase they run in the order init, preload, create, each at most once. *)
(* A scene with a preload is LOADING, waiting for COMPLETE, when the call  *)
(* that ran preload returns, and its create runs only in a loadComplete    *)
(* phase.  A scene without a preload has create run inside start, unless   *)
(* it is idle and has a pack the loader accepts: start then leaves it      *)
(* LOADING and init and create run in the payloadComplete phase.           *)
(***************************************************************************)
C10_Opens(ev, id) == ev.e \in {"start", "loadComplete", "payloadComplete"} /\ ev.id = id

C10_Rank(e) == CASE e = "init" -> 1 [] e = "preload" -> 2 [] e = "create" -> 3

\* the position of the event that opened the phase of the callback at p
C10_Head(events, p) ==
    IF \E h \in 1..(p - 1) : C10_Opens(events[h], events[p].id)
    THEN CHOOSE h \in 1..(p - 1) :
            /\ C10_Opens(events[h], events[p].id)
            /\ \A g \in (h + 1)..(p - 1) : ~C10_Opens(events[g], events[p].id)
    ELSE 0

C10_Phases(events) ==
    \A p \in 1..Len(events) :
        events[p].e \in Callbacks =>
            /\ C10_Head(events, p) # 0
            /\ \A q \in (p + 1)..Len(events) :
                  (/\ events[q].e \in Callbacks
                   /\ events[q].id = events[p].id
                   /\ C10_Head(events, q) = C10_Head(events, p))
                  => C10_Rank(events[p].e) < C10_Rank(events[q].e)

C10_CreateAfterComplete(events) ==
    \A p \in 1..Len(events) :
        LET head == events[C10_Head(events, p)].e
            hasPreload == DescOf(objs'[events[p].id].desc).preload.has
        IN /\ (events[p].e = "create" /\ hasPreload) => head = "loadComplete"
           /\ (events[p].e = "create" /\ ~hasPreload) => head \in {"start", "payloadComplete"}
           /\ (events[p].e \in {"init", "preload"}) => head \in {"start", "payloadComplete"}

C10_LoadingAfterPreload(events) ==
    /\ \A p \in 1..Len(events) :
          events[p].e = "preload" =>
              /\ objs'[events[p].id].status = LOADING
              /\ "loadComplete" \in Range(objs'[events[p].id].listeners)
    /\ \A id \in 1..Len(objs') :
          "loadComplete" \in Range(objs'[id].listeners) => objs'[id].status = LOADING

C10_StartOfIdle(packDefers) ==
    LET id == SceneOf(lastCall'.keyA)
        d == DescOf(objs[id].desc)
        idle == objs[id].status < START \/ objs[id].status > SLEEPING
    IN (lastCall'.op = "start" /\ id # 0 /\ ~(objs[id].status \in START..CREATING)
        /\ ~d.preload.has)
       => IF packDefers /\ idle /\ d.pack = "ok"
          THEN /\ objs'[id].status = LOADING
               /\ objs'[id].listeners = <<"payloadComplete">>
               /\ \A p \in 1..Len(log') : log'[p].e \notin Callbacks
          ELSE /\ objs'[id].status = RUNNING
               /\ \E p \in 1..Len(log') : log'[p].e = "create" /\ log'[p].id = id

C10_Order(packDefers) ==
    /\ C10_Phases(log')
    /\ C10_CreateAfterComplete(log')
    /\ C10_LoadingAfterPreload(log')
    /\ C10_StartOfIdle(packDefers)

C10_CallbackOrder == [][C10_Order(TRUE)]_vars

\* C10 as stated: without a preload create always runs inside start
C10_AsStated == [][C10_Order(FALSE)]_vars

\* the loader of a scene with a preload has completed: create has run in
\* the loadComplete phase and the scene is running
C10_Witness ==
    /\ lastCall.op = "complete"
    /\ Len(log) >= 2
    /\ log[1].e = "loadComplete" /\ log[2].e = "create" /\ log[2].id = log[1].id
    /\ DescOf(objs[log[1].id].desc).preload.has
    /\ objs[log[1].id].status = RUNNING

(***************************************************************************)
(* C11: create sets the status to CREATING before it calls the user's      *)
(* create callback.  If the callback destroyed the scene, create stops:    *)
(* the scene stays DESTROYED, its step hook stays the no-op and no         *)
(* creation-complete event is emitted.  Otherwise the scene's update is    *)
(* installed as the step hook, the status becomes RUNNING and the event is *)
(* emitted.                                                                *)
(***************************************************************************)
\* the scene of the create callback logged at p was destroyed in that callback
C11_DestroyedInCreate(events, p) ==
    /\ p < Len(events)
    /\ events[p + 1].e = "destroy" /\ events[p + 1].id = events[p].id

C11_Aborted(events, p, s) ==
    /\ s.status = DESTROYED
    /\ s.hook = "NOOP"
    /\ ~\E q \in (p + 1)..Len(events) : events[q].e = "created" /\ events[q].id = events[p].id

C11_Completed(events, p, s) ==
    /\ p < Len(events)
    /\ events[p + 1] = Ev("created", events[p].id, events[p].key, events[p].data, 0)
    /\ s.status = RUNNING
    /\ s.hook = IF HasUpdate(DescOf(s.desc)) THEN "update" ELSE "NOOP"

C11_CreateAborts ==
    [][\A p \in 1..Len(log') :
          log'[p].e = "create" =>
              /\ log'[p].st = CREATING
              /\ IF C11_DestroyedInCreate(log', p)
                 THEN C11_Aborted(log', p, objs'[log'[p].id])
                 ELSE C11_Completed(log', p, objs'[log'[p].id])]_vars

\* a scene removed itself in its create callback: it is destroyed, has no
\* step hook and is listed nowhere
C11_Witness ==
    /\ \E p \in 1..(Len(log) - 1) :
          /\ log[p].e = "create" /\ log[p].st = CREATING
          /\ log[p + 1].e = "destroy" /\ log[p + 1].id = log[p].id
          /\ objs[log[p].id].status = DESTROYED
          /\ objs[log[p].id].hook = "NOOP"
          /\ log[p].id \notin Range(scenes)

(***************************************************************************)
(* C12: before the ready signal the staged scenes wait in _pending and     *)
(* scenes is empty; the boot admits them into scenes in staging order.     *)
(* When the staged entries have different keys, a staged scene collected   *)
(* for starting (marked autostart, started before the boot, or active)     *)
(* that has no preload and no pack runs init, then create, and is RUNNING  *)
(* after the boot; a staged scene not collected is admitted with status    *)
(* INIT and none of its callbacks run.                                     *)
(***************************************************************************)
C12_Collected(i) ==
    \/ _pending[i].autoStart
    \/ _data[objs'[i].key].has /\ _data[objs'[i].key].autoStart
    \/ DescOf(_pending[i].scene).active

C12_DistinctKeys == \A i, j \in 1..Len(objs') : i # j => objs'[i].key # objs'[j].key

C12_Started(i, d) ==
    /\ objs'[i].status = RUNNING
    /\ \E c \in 1..Len(log') :
          /\ log'[c].e = "create" /\ log'[c].id = i
          /\ d.init.has => \E p \in 1..(c - 1) : log'[p].e = "init" /\ log'[p].id = i
          /\ \A p \in (c + 1)..Len(log') : ~(log'[p].e = "init" /\ log'[p].id = i)

C12_NotStarted(i) ==
    /\ objs'[i].status = INIT
    /\ \A p \in 1..Len(log') : log'[p].id = i => log'[p].e = "admit"

C12_Boot ==
    (lastCall'.op = "boot" /\ thrown' = "none") =>
        /\ isBooted' /\ _pending' = <<>>
        /\ Len(objs') = Len(_pending)
        /\ scenes' = [i \in 1..Len(_pending) |-> i]
        /\ \A i \in 1..Len(_pending) : objs'[i].desc = _pending[i].scene
        /\ C12_DistinctKeys =>
              \A i \in 1..Len(_pending) :
                  LET d == DescOf(_pending[i].scene) IN
                  IF C12_Collected(i)
                  THEN (~d.preload.has /\ d.pack = "none") => C12_Started(i, d)
                  ELSE C12_NotStarted(i)

C12_Staged ==
    ~readyFired' => /\ scenes' = <<>> /\ objs' = <<>>
                  /\ keys' = [k \in AllKeys |-> 0]
                  /\ Len(_pending') >= Len(_pending)

C12_StagedUntilBoot == [][C12_Staged /\ C12_Boot]_vars

\* the boot has admitted two staged scenes in order: the first, marked
\* autostart, has run init and create and is running, the second is idle
C12_Witness ==
    /\ lastCall.op = "boot" /\ thrown = "none"
    /\ scenes = <<1, 2>>
    /\ objs[1].status = RUNNING /\ objs[2].status = INIT
    /\ objs[1].key # objs[2].key
    /\ \E p, c \in 1..Len(log) :
          /\ p < c
          /\ log[p].e = "init" /\ log[p].id = 1
          /\ log[c].e = "create" /\ log[c].id = 1

(***************************************************************************)
(* C13: a start(k) made before the boot is buffered: the call changes no   *)
(* scene and stages nothing but the start of k; the buffered start stays   *)
(* staged through every later call made before the boot, an add(k, ...)    *)
(* included; and the boot starts the scene admitted under k.               *)
(***************************************************************************)
C13_BufferedStart(k) == _data[k].has /\ _data[k].autoStart

C13_Buffered ==
    (lastCall'.op = "start" /\ ~isBooted) =>
        /\ ~isBooted'
        /\ objs' = objs /\ scenes' = scenes /\ keys' = keys
        /\ _pending' = _pending /\ log' = <<>>
        /\ _data'[lastCall'.keyA] = [has |-> TRUE, autoStart |-> TRUE,
                                     data |-> lastCall'.data]

C13_Kept ==
    ~isBooted' =>
        \A k \in CallKeys :
            C13_BufferedStart(k) => _data'[k].has /\ _data'[k].autoStart

C13_Honoured ==
    (lastCall'.op = "boot" /\ thrown' = "none") =>
        \A k \in CallKeys :
            (C13_BufferedStart(k) /\ keys'[k] # 0) =>
                \E p \in 1..Len(log') : log'[p].e = "start" /\ log'[p].id = keys'[k]

C13_StartBuffered == [][C13_Buffered /\ C13_Kept /\ C13_Honoured]_vars

(***************************************************************************)
(* C14: the data D given to add(k, config, TRUE, D), or to a start(k, D)   *)
(* made before the boot, is the data the first init or create callback of  *)
(* the auto-started scene receives: when add admits the scene at once,     *)
(* when the admission waits for the next flush, and when it waits for the  *)
(* boot.                                                                   *)
(***************************************************************************)
C14_FirstCallback(events, p, id) ==
    /\ events[p].id = id /\ events[p].e \in {"init", "create"}
    /\ \A q \in 1..(p - 1) : ~(events[q].id = id /\ events[q].e \in {"init", "create"})

C14_Receives(events, id, data) ==
    \A p \in 1..Len(events) : C14_FirstCallback(events, p, id) => events[p].data = data

C14_Immediate ==
    (/\ lastCall'.op = "add" /\ lastCall'.keyB = "auto"
     /\ isBooted /\ ~isProcessing /\ thrown' = "none" /\ Len(objs') = Len(objs) + 1) =>
        C14_Receives(log', Len(objs'), lastCall'.data)

C14_Deferred ==
    (lastCall'.op = "update" /\ thrown' = "none") =>
        \A i \in 1..Len(_pending) :
            (_pending[i].autoStart /\ keys'[_pending[i].key] > Len(objs)) =>
                C14_Receives(log', keys'[_pending[i].key], _pending[i].data)

C14_Staged ==
    (lastCall'.op = "boot" /\ thrown' = "none") =>
        /\ \A i \in 1..Len(_pending) :
              (_pending[i].autoStart /\ _pending[i].key \in CallKeys
               /\ keys'[_pending[i].key] # 0) =>
                  C14_Receives(log', keys'[_pending[i].key], _pending[i].data)
        /\ \A k \in CallKeys :
              (_data[k].has /\ _data[k].autoStart /\ keys'[k] # 0) =>
                  C14_Receives(log', keys'[k], _data[k].data)

C14_DataReachesCallbacks == [][C14_Immediate /\ C14_Deferred /\ C14_Staged]_vars

(***************************************************************************)
(* C15: switch(A, B, D) on two different admitted scenes puts a running A  *)
(* to sleep; a B that was admitted and never run (without preload or pack) *)
(* is started: its init and create receive D and it ends RUNNING; a B that *)
(* is SLEEPING is woken with D and runs neither a shutdown nor a callback. *)
(* When A and B are the same scene, or one of them is not admitted, switch *)
(* changes nothing.                                                        *)
(***************************************************************************)
C15_Applies ==
    /\ keys[lastCall'.keyA] # 0 /\ keys[lastCall'.keyB] # 0
    /\ keys[lastCall'.keyA] # keys[lastCall'.keyB]

C15_FromSleeps(a) ==
    (objs[a].status = RUNNING /\ ~objs[a].isTransition) => objs'[a].status = SLEEPING

C15_Fresh(b, data) ==
    (/\ objs[b].status = INIT /\ objs[b].fired = {}
     /\ ~DescOf(objs[b].desc).preload.has /\ DescOf(objs[b].desc).pack = "none") =>
        /\ objs'[b].status = RUNNING /\ objs'[b].data = data
        /\ \A p \in 1..Len(log') :
              (log'[p].id = b /\ log'[p].e \in {"init", "create"}) => log'[p].data = data
        /\ \E p \in 1..Len(log') : log'[p].id = b /\ log'[p].e = "create"
        /\ DescOf(objs[b].desc).init.has =>
              \E p \in 1..Len(log') : log'[p].id = b /\ log'[p].e = "init"

C15_Woken(b, data) ==
    objs[b].status = SLEEPING =>
        /\ objs'[b] = [objs[b] EXCEPT !.status = RUNNING]
        /\ log' = <<Ev("wake", b, objs[b].key, data, 0)>>

C15_NoOp ==
    /\ objs' = objs /\ scenes' = scenes /\ keys' = keys
    /\ _queue' = _queue /\ _pending' = _pending /\ log' = <<>>

C15_Switch ==
    [][lastCall'.op = "switch" =>
          IF C15_Applies
          THEN /\ C15_FromSleeps(keys[lastCall'.keyA])
               /\ C15_Fresh(keys[lastCall'.keyB], lastCall'.data)
               /\ C15_Woken(keys[lastCall'.keyB], lastCall'.data)
          ELSE C15_NoOp]_vars

\* A was running and B idle: after switch('A', 'B', d1) A sleeps and B runs,
\* its init and create having received d1
C15_Witness ==
    /\ lastCall = Call("switch", "A", "B", "d1")
    /\ keys["A"] # 0 /\ keys["B"] # 0
    /\ objs[keys["A"]].status = SLEEPING
    /\ objs[keys["B"]].status = RUNNING
    /\ \E p, c \in 1..Len(log) :
          /\ p < c
          /\ log[p] = Ev("init", keys["B"], "B", "d1", START)
          /\ log[c] = Ev("create", keys["B"], "B", "d1", CREATING)

(***************************************************************************)
(* C16: run(k, D) on an admitted scene wakes it when it is SLEEPING,       *)
(* resumes it when it is PAUSED, starts it when it is idle (INIT or        *)
(* SHUTDOWN), and leaves a RUNNING scene as it is: no shutdown, no init    *)
(* and no create.                                                          *)
(***************************************************************************)
C16_Untouched(id) ==
    /\ objs'[id] = objs[id]
    /\ \A p \in 1..Len(log') :
          log'[p].id = id => log'[p].e \notin {"shutdown", "start", "init", "create"}

C16_Run(id, data) ==
    CASE objs[id].status = SLEEPING ->
           /\ objs'[id].status = RUNNING
           /\ log' = <<Ev("wake", id, objs[id].key, data, 0)>>
      [] objs[id].status = PAUSED ->
           /\ objs'[id].status = RUNNING
           /\ log' = <<Ev("resume", id, objs[id].key, data, 0)>>
      [] objs[id].status \in {INIT, SHUTDOWN} ->
           /\ Len(log') > 0
           /\ log'[1] = Ev("start", id, objs[id].key, data, 0)
      [] objs[id].status = RUNNING -> C16_Untouched(id)
      [] OTHER -> TRUE

C16_RunKeepsRunning ==
    [][(lastCall'.op = "run" /\ keys[lastCall'.keyA] # 0) =>
          C16_Run(keys[lastCall'.keyA], lastCall'.data)]_vars

(***************************************************************************)
(* C17: start, run and the ordering operations executed with a key that    *)
(* has no admitted scene, directly while not processing or replayed from   *)
(* the queue, leave scenes, keys and every scene unchanged and raise no    *)
(* exception; moveAbove, moveBelow and swapPosition with keyA equal to     *)
(* keyB change nothing either.                                             *)
(***************************************************************************)
C17_Ops == {"start", "run"} \cup OrderOps \cup OrderOps2

C17_Unknown(op, keyA, keyB) ==
    \/ keys[keyA] = 0
    \/ op \in OrderOps2 /\ (keys[keyB] = 0 \/ keyA = keyB)

C17_Unchanged ==
    /\ scenes' = scenes /\ keys' = keys /\ objs' = objs
    /\ thrown' = "none"

C17_Direct ==
    (/\ lastCall'.op \in C17_Ops /\ isBooted /\ ~isProcessing
     /\ C17_Unknown(lastCall'.op, lastCall'.keyA, lastCall'.keyB)) => C17_Unchanged

C17_Replayed ==
    (/\ lastCall'.op = "update" /\ _pending = <<>> /\ _queue # <<>>
     /\ \A i \in 1..Len(_queue) :
           /\ _queue[i].op \in C17_Ops
           /\ C17_Unknown(_queue[i].op, _queue[i].keyA, _queue[i].keyB)) =>
        /\ scenes' = scenes /\ keys' = keys
        /\ \A id \in 1..Len(objs) : objs'[id].status = objs[id].status
        /\ thrown' = "none"

C17_UnknownKeyNoOp == [][C17_Direct /\ C17_Replayed]_vars

(***************************************************************************)
(* C18: remove(k), sleep(k) and stop(k) on a scene whose transition is     *)
(* under way are skipped: the scene keeps its status and everything else,  *)
(* stays in scenes and in keys, and nothing is thrown; a remove that was   *)
(* deferred is skipped the same way when the flush replays it.             *)
(***************************************************************************)
C18_Transitioning(k) == keys[k] # 0 /\ IsTransitioning(objs[keys[k]])

C18_Direct ==
    (lastCall'.op \in {"remove", "sleep", "stop"} /\ C18_Transitioning(lastCall'.keyA)) =>
        /\ objs' = objs /\ scenes' = scenes /\ keys' = keys
        /\ thrown' = "none"

C18_Replayed ==
    (lastCall'.op = "update") =>
        \A i \in 1..Len(_queue) :
            (_queue[i].op = "remove" /\ C18_Transitioning(_queue[i].keyA)) =>
                /\ keys'[_queue[i].keyA] = keys[_queue[i].keyA]
                /\ keys[_queue[i].keyA] \in Range(scenes')
                /\ objs'[keys[_queue[i].keyA]].status = objs[keys[_queue[i].keyA]].status
                /\ thrown' = "none"

C18_TransitionSkips == [][C18_Direct /\ C18_Replayed]_vars

\* a remove made between frames on a running scene in transition: the scene
\* is still listed, keyed and running
C18_Witness ==
    /\ lastCall.op \in {"remove", "sleep", "stop"} /\ ~isProcessing /\ _queue = <<>>
    /\ keys[lastCall.keyA] # 0
    /\ objs[keys[lastCall.keyA]].isTransition
    /\ objs[keys[lastCall.keyA]].status = RUNNING
    /\ keys[lastCall.keyA] \in Range(scenes)

(***************************************************************************)
(* C19: when bringToTop(k) is executed on a listed scene k, directly while *)
(* not processing or replayed from the queue, k is the last entry of       *)
(* scenes afterwards (getIndex(k) = scenes.length - 1); when sendToBack(k) *)
(* is executed, k is the first (getIndex(k) = 0); in both cases the other  *)
(* entries keep their relative order and nothing enters or leaves scenes.  *)
(***************************************************************************)
C19_Others(seq, id) == SelectSeq(seq, LAMBDA x : x # id)

C19_Listed(k) == keys[k] # 0 /\ keys[k] \in Range(scenes)

C19_MovedTo(id, index) ==
    /\ IndexOf(scenes', id) = index
    /\ Len(scenes') = Len(scenes)
    /\ C19_Others(scenes', id) = C19_Others(scenes, id)
    /\ keys' = keys

C19_Executed(op, k) ==
    \/ /\ lastCall'.op = op /\ lastCall'.keyA = k
       /\ isBooted /\ ~isProcessing
    \/ /\ lastCall'.op = "update" /\ _pending = <<>>
       /\ Len(_queue) = 1 /\ _queue[1].op = op /\ _queue[1].keyA = k

C19_TopAndBack ==
    [][\A k \in CallKeys :
          /\ (C19_Executed("bringToTop", k) /\ C19_Listed(k)) =>
                C19_MovedTo(keys[k], Len(scenes))
          /\ (C19_Executed("sendToBack", k) /\ C19_Listed(k)) =>
                C19_MovedTo(keys[k], 1)]_vars

\* bringToTop('A') on the first of three scenes: A is last, the two others
\* are in their old order
C19_Witness ==
    /\ lastCall = Call("bringToTop", "A", NoKey, "d0")
    /\ keys["A"] = 1
    /\ scenes = <<2, 3, 1>>

(***************************************************************************)
(* C20: when not processing and A and B are two different listed scenes,   *)
(* moveAbove(A, B) leaves B right above A (index of B = index of A + 1)    *)
(* when B was below A and leaves scenes unchanged when B was above A;      *)
(* moveBelow(A, B) leaves B right below A (index of B = index of A - 1)    *)
(* when B was above A and leaves scenes unchanged otherwise.  In every     *)
(* case the entries other than B keep their relative order and scenes is   *)
(* a permutation of what it was.                                           *)
(***************************************************************************)
C20_Count(seq, x) == Cardinality({i \in 1..Len(seq) : seq[i] = x})

C20_Permutation(s1, s2) ==
    /\ Len(s1) = Len(s2)
    /\ \A x \in Range(s1) \cup Range(s2) : C20_Count(s1, x) = C20_Count(s2, x)

C20_Applies(op) ==
    /\ lastCall'.op = op /\ isBooted /\ ~isProcessing
    /\ C19_Listed(lastCall'.keyA) /\ C19_Listed(lastCall'.keyB)
    /\ keys[lastCall'.keyA] # keys[lastCall'.keyB]

C20_Kept(b) ==
    /\ C19_Others(scenes', b) = C19_Others(scenes, b)
    /\ C20_Permutation(scenes', scenes)
    /\ keys' = keys

C20_Above(a, b) ==
    /\ IF IndexOf(scenes, b) < IndexOf(scenes, a)
       THEN IndexOf(scenes', b) = IndexOf(scenes', a) + 1
       ELSE scenes' = scenes
    /\ C20_Kept(b)

C20_Below(a, b) ==
    /\ IF IndexOf(scenes, b) > IndexOf(scenes, a)
       THEN IndexOf(scenes', b) = IndexOf(scenes', a) - 1
       ELSE scenes' = scenes
    /\ C20_Kept(b)

C20_MoveAboveBelow ==
    [][/\ C20_Applies("moveAbove") =>
             C20_Above(keys[lastCall'.keyA], keys[lastCall'.keyB])
       /\ C20_Applies("moveBelow") =>
             C20_Below(keys[lastCall'.keyA], keys[lastCall'.keyB])]_vars

\* moveAbove('A', 'B') with B first and A last of three scenes: B is now
\* right above A and the third scene is where it was relative to A
C20_Witness ==
    /\ lastCall = Call("moveAbove", "A", "B", "d0")
    /\ keys["A"] = 1 /\ keys["B"] = 2
    /\ scenes = <<3, 1, 2>>

(***************************************************************************)
(* C21: with A, B and C the three listed scenes (C is the scene under      *)
(* 'default'), moveAbove('B', 'A') moves A, the second scene named, above  *)
(* B: the order [A, B, C] becomes [B, A, C], and the order [B, A, C],      *)
(* where A is above B already, is left as it is.                           *)
(***************************************************************************)
C21_Call ==
    /\ lastCall' = Call("moveAbove", "B", "A", "d0")
    /\ isBooted /\ ~isProcessing
    /\ keys["A"] = 1 /\ keys["B"] = 2 /\ keys["default"] = 3

C21_MoveAboveBA ==
    [][C21_Call => /\ scenes = <<1, 2, 3>> => scenes' = <<2, 1, 3>>
                   /\ scenes = <<2, 1, 3>> => scenes' = <<2, 1, 3>>]_vars

\* C21 as the specification words it: [A, B, C] stays, [B, A, C] becomes
\* [A, B, C]
C21_AsStated ==
    [][C21_Call => /\ scenes = <<1, 2, 3>> => scenes' = <<1, 2, 3>>
                   /\ scenes = <<2, 1, 3>> => scenes' = <<1, 2, 3>>]_vars

\* the first call after the boot is moveAbove('B', 'A') on [A, B, C]
C21_Witness ==
    /\ lastCall = Call("moveAbove", "B", "A", "d0")
    /\ ncalls = 1 /\ ~isProcessing /\ frame = <<>>
    /\ keys["A"] = 1 /\ keys["B"] = 2 /\ keys["default"] = 3
    /\ scenes = <<2, 1, 3>>

(***************************************************************************)
(* C22: an update that ends without an error first flushes: every queued   *)
(* operation is replayed before the pass over the scenes begins, and no    *)
(* scene is stepped before that; the pass then steps the scenes from the   *)
(* last entry of scenes down to the first.  A render visits the scenes     *)
(* from the first entry to the last.                                       *)
(***************************************************************************)
C22_Reverse(seq) == [i \in 1..Len(seq) |-> seq[Len(seq) + 1 - i]]

C22_Ids(events, e) ==
    LET sel == SelectSeq(events, LAMBDA ev : ev.e = e)
    IN [i \in 1..Len(sel) |-> sel[i].id]

C22_Stepped(id) == objs'[id].status > START /\ objs'[id].status <= RUNNING

C22_Rendered(id) ==
    objs[id].visible /\ objs[id].status >= LOADING /\ objs[id].status < SLEEPING

C22_PassAt(P) ==
    /\ log'[P].e = "pass"
    /\ \A p \in 1..(P - 1) : log'[p].e \notin {"pass", "step", "update"}
    /\ \A p \in (P + 1)..Len(log') : log'[p].e \in {"step", "update"}
    /\ Len(SelectSeq(SubSeq(log', 1, P - 1), LAMBDA ev : ev.e = "replay")) = Len(_queue)

C22_UpdateOrder ==
    (lastCall'.op = "update" /\ thrown' = "none") =>
        /\ \E P \in 1..Len(log') : C22_PassAt(P)
        /\ scenes' = frame'
        /\ C22_Ids(log', "step") = C22_Reverse(SelectSeq(scenes', C22_Stepped))

C22_RenderOrder ==
    (lastCall'.op = "render" /\ thrown' = "none") =>
        /\ scenes' = scenes
        /\ \A p \in 1..Len(log') : log'[p].e = "render"
        /\ C22_Ids(log', "render") = SelectSeq(scenes, C22_Rendered)

C22_FrameOrder == [][C22_UpdateOrder /\ C22_RenderOrder]_vars

\* an update that replayed a queued operation and then stepped the second
\* scene of the list before the first
C22_Witness ==
    /\ lastCall.op = "update" /\ thrown = "none"
    /\ scenes = <<1, 2>>
    /\ \E r, P, a, b \in 1..Len(log) :
          /\ r < P /\ P < a /\ a < b
          /\ log[r].e = "replay" /\ log[P].e = "pass"
          /\ log[a].e = "step" /\ log[a].id = 2
          /\ log[b].e = "step" /\ log[b].id = 1

(***************************************************************************)
(* C23: in an update that ends without an error a listed scene is stepped  *)
(* exactly when its status is LOADING, CREATING or RUNNING; a scene that   *)
(* is PENDING, INIT, START, PAUSED, SLEEPING, SHUTDOWN or DESTROYED is not *)
(* stepped, and no scene is stepped outside update.                        *)
(***************************************************************************)
C23_StepOf(id) == \E p \in 1..Len(log') : log'[p].e = "step" /\ log'[p].id = id

C23_StepGate ==
    IF lastCall'.op = "update"
    THEN thrown' = "none" =>
            \A id \in 1..Len(objs') :
                C23_StepOf(id) <=> /\ id \in Range(frame')
                                   /\ objs'[id].status \in {LOADING, CREATING, RUNNING}
    ELSE \A p \in 1..Len(log') : log'[p].e # "step"

C23_SteppedIffActive == [][C23_StepGate]_vars

\* one update that stepped a loading scene and passed over a listed scene
\* that was paused, sleeping, shut down or never started
C23_Witness ==
    /\ lastCall.op = "update" /\ thrown = "none"
    /\ \E a, b \in Range(frame) \ {0} :
          /\ objs[a].status = LOADING
          /\ \E p \in 1..Len(log) : log[p].e = "step" /\ log[p].id = a
          /\ objs[b].status \in {INIT, PAUSED, SLEEPING, SHUTDOWN}
          /\ \A p \in 1..Len(log) : log[p].id = b => log[p].e # "step"

(***************************************************************************)
(* C24: in a render that ends without an error a listed scene's render     *)
(* hook runs exactly when the scene is visible and its status is LOADING,  *)
(* CREATING, RUNNING or PAUSED; a scene that is hidden, sleeping, shut     *)
(* down or not started is not rendered, and nothing is rendered outside    *)
(* render.                                                                 *)
(***************************************************************************)
C24_RenderOf(id) == \E p \in 1..Len(log') : log'[p].e = "render" /\ log'[p].id = id

C24_RenderGate ==
    IF lastCall'.op = "render"
    THEN thrown' = "none" =>
            \A id \in 1..Len(objs) :
                C24_RenderOf(id) <=>
                    /\ id \in Range(scenes)
                    /\ objs[id].visible
                    /\ objs[id].status \in {LOADING, CREATING, RUNNING, PAUSED}
    ELSE \A p \in 1..Len(log') : log'[p].e # "render"

C24_RenderedIffVisible == [][C24_RenderGate]_vars

\* one render that drew a visible paused scene and passed over a hidden
\* running one
C24_Witness ==
    /\ lastCall.op = "render" /\ thrown = "none"
    /\ \E a, b \in Range(scenes) \ {0} :
          /\ objs[a].visible /\ objs[a].status = PAUSED
          /\ \E p \in 1..Len(log) : log[p].e = "render" /\ log[p].id = a
          /\ ~objs[b].visible /\ objs[b].status = RUNNING
          /\ \A p \in 1..Len(log) : log[p].id # b

(***************************************************************************)
(* C25: with update and render alternating, isProcessing is false when     *)
(* update begins, so the flush replays every queued operation instead of   *)
(* queueing it again; it is set before the first scene is stepped and is   *)
(* true when update returns; no call made between update and render        *)
(* changes it; it is true when render begins and false when render         *)
(* returns.                                                                *)
(***************************************************************************)
C25_SetBeforeSteps ==
    \E P \in 1..Len(log') :
        /\ log'[P].e = "pass"
        /\ \A p \in 1..(P - 1) : log'[p].e # "step"

C25_Update ==
    lastCall'.op = "update" =>
        /\ ~isProcessing
        /\ thrown' # "hang"
        /\ thrown' = "none" => (isProcessing' /\ C25_SetBeforeSteps)

C25_Render ==
    lastCall'.op = "render" =>
        /\ isProcessing
        /\ thrown' = "none" => ~isProcessing'

C25_Between ==
    lastCall'.op \notin {"update", "render"} => isProcessing' = isProcessing

C25_ProcessingSpan == [][C25_Update /\ C25_Render /\ C25_Between]_vars

\* a render has returned: isProcessing is false again, and the operation
\* called during the frame still waits in the queue
C25_Witness ==
    /\ lastCall.op = "render" /\ thrown = "none"
    /\ ~isProcessing
    /\ _queue # <<>>

(***************************************************************************)
(* C26: within one run of a scene, from the START set by start until the   *)
(* scene is RUNNING, the status does not decrease: of two callbacks of the *)
(* scene entered in the same run (no start or shutdown of the scene        *)
(* between them), the later one is not entered with a lower status, and    *)
(* the status the call leaves the scene with is not lower either.          *)
(***************************************************************************)
C26_SameRun(events, p, q) ==
    /\ p < q /\ events[p].id = events[q].id
    /\ events[p].e \in {"init", "preload", "create"}
    /\ events[q].e \in {"init", "preload", "create"}
    /\ \A r \in (p + 1)..(q - 1) :
          ~(events[r].id = events[p].id /\ events[r].e \in {"start", "shutdown", "destroy"})

C26_LastOfRun(events, p) ==
    /\ events[p].e \in {"init", "preload", "create"}
    /\ \A r \in (p + 1)..Len(events) : events[r].id # events[p].id

C26_Monotone(events) ==
    /\ \A p, q \in 1..Len(events) :
          C26_SameRun(events, p, q) => events[p].st <= events[q].st
    /\ \A p \in 1..Len(events) :
          (C26_LastOfRun(events, p) /\ objs'[events[p].id].status <= RUNNING) =>
              events[p].st <= objs'[events[p].id].status

C26_StatusMonotone == [][C26_Monotone(log')]_vars

(***************************************************************************)
(* C27: DESTROYED is terminal.  A scene destroyed in the course of a call  *)
(* is DESTROYED when the call returns, also when it removed itself from    *)
(* its own init, preload or create callback; a scene that is DESTROYED     *)
(* keeps that status through every later call; and it is in none of        *)
(* scenes, keys and _start.                                                *)
(***************************************************************************)
C27_DestroyedNow(id) ==
    \E p \in 1..Len(log') : log'[p].e = "destroy" /\ log'[p].id = id

C27_Unlisted(id) ==
    /\ id \notin Range(scenes')
    /\ \A k \in AllKeys : keys'[k] # id
    /\ keys'[objs'[id].key] = 0 => objs'[id].key \notin Range(_start')

C27_Terminal ==
    \A id \in 1..Len(objs') :
        /\ C27_DestroyedNow(id) => objs'[id].status = DESTROYED
        /\ (id <= Len(objs) /\ objs[id].status = DESTROYED) => objs'[id].status = DESTROYED
        /\ objs'[id].status = DESTROYED => C27_Unlisted(id)

C27_DestroyedTerminal == [][C27_Terminal]_vars

(***************************************************************************)
(* C28: destroy() throws nothing; it destroys the scenes that were listed, *)
(* in list order, and then the system scene; it leaves scenes, _pending,   *)
(* _start and _queue empty and no key under which a scene can be got; and  *)
(* an update called afterwards changes nothing.                            *)
(***************************************************************************)
C28_Listed == SelectSeq(scenes, LAMBDA id : id # 0)

C28_Destroyed ==
    /\ C22_Ids(log', "destroy") = C28_Listed \o <<0>>
    /\ \A i \in 1..Len(C28_Listed) : objs'[C28_Listed[i]].status = DESTROYED
    /\ systemScene' = "destroyed"

C28_Cleared ==
    /\ scenes' = <<>> /\ _pending' = <<>> /\ _start' = <<>> /\ _queue' = <<>>
    /\ \A k \in AllKeys : keys'[k] = 0

C28_Destroy ==
    lastCall'.op = "destroy" => (thrown' = "none" /\ C28_Destroyed /\ C28_Cleared)

C28_UpdateAfter ==
    (lastCall'.op = "update" /\ systemScene = "destroyed") =>
        /\ UNCHANGED <<keys, scenes, _pending, _start, _queue, objs, isProcessing>>
        /\ log' = <<>> /\ thrown' = "none"

C28_AfterDestroy == [][C28_Destroy /\ C28_UpdateAfter]_vars

(***************************************************************************)
(* C29: a start that proceeds on a scene with a pack the loader accepts,   *)
(* whether the scene was idle or was live and is shut down and started     *)
(* again, leaves the scene LOADING with payloadComplete subscribed and     *)
(* runs none of its callbacks; they run when the loader completes.         *)
(***************************************************************************)
C29_Target == SceneOf(lastCall'.keyA)

C29_Proceeds ==
    /\ lastCall'.op = "start"
    /\ isBooted
    /\ C29_Target # 0
    /\ ~(objs[C29_Target].status \in START..CREATING)
    /\ objs[C29_Target].load
    /\ DescOf(objs[C29_Target].desc).pack = "ok"

C29_Deferred ==
    /\ objs'[C29_Target].status = LOADING
    /\ objs'[C29_Target].listeners = <<"payloadComplete">>
    /\ \A p \in 1..Len(log') : ~(log'[p].e \in Callbacks /\ log'[p].id = C29_Target)

C29_PackDefers == [][C29_Proceeds => C29_Deferred]_vars

(***************************************************************************)
(* C30: pause(k) on a running scene makes it PAUSED, resume(k) on the      *)
(* scene paused that way makes it RUNNING again, and settings.data is what *)
(* it was after each of the two calls.                                     *)
(***************************************************************************)
C30_Target == SceneOf(lastCall'.keyA)

C30_Pause ==
    (lastCall'.op = "pause" /\ C30_Target # 0 /\ objs[C30_Target].status = RUNNING) =>
        /\ objs'[C30_Target].status = PAUSED
        /\ objs'[C30_Target].data = objs[C30_Target].data

C30_Resume ==
    (lastCall'.op = "resume" /\ C30_Target # 0 /\ objs[C30_Target].status = PAUSED) =>
        /\ objs'[C30_Target].status = RUNNING
        /\ objs'[C30_Target].data = objs[C30_Target].data

C30_PauseResume == [][C30_Pause /\ C30_Resume]_vars

\* a scene started with data d1 and then paused has been resumed: it is
\* running and its data is still d1
C30_Witness ==
    /\ lastCall.op = "resume"
    /\ SceneOf(lastCall.keyA) # 0
    /\ Len(log) = 1 /\ log[1].e = "resume" /\ log[1].id = SceneOf(lastCall.keyA)
    /\ objs[SceneOf(lastCall.keyA)].status = RUNNING
    /\ objs[SceneOf(lastCall.keyA)].data = "d1"

(***************************************************************************)
(* C31: run(k, D) that returns, returns the Scene Manager: when no scene   *)
(* has the key, when the scene is sleeping, when it is paused and when it  *)
(* is neither.                                                             *)
(***************************************************************************)
C31_Returned == lastCall'.op = "run" /\ thrown' = "none"

C31_RunReturnsThis == [][C31_Returned => ret' = "this"]_vars

(***************************************************************************)
(* C32: stop(k) on a scene that is LOADING, with the files of its preload  *)
(* or its pack in flight, makes it SHUTDOWN with no completion listener    *)
(* left; a COMPLETE event of its loader that arrives afterwards runs none  *)
(* of its callbacks; the scene leaves SHUTDOWN only in a call that starts  *)
(* it; and the start of a shut down scene that has a preload or a pack     *)
(* leaves it LOADING with exactly one completion listener.                 *)
(***************************************************************************)
C32_Target == SceneOf(lastCall'.keyA)

C32_Stop ==
    (lastCall'.op = "stop" /\ C32_Target # 0 /\ objs[C32_Target].status = LOADING) =>
        /\ objs'[C32_Target].status = SHUTDOWN
        /\ objs'[C32_Target].listeners = <<>>

C32_Complete ==
    (lastCall'.op = "complete" /\ C32_Target # 0 /\ objs[C32_Target].status = SHUTDOWN) =>
        /\ log' = <<>>
        /\ objs'[C32_Target].status = SHUTDOWN

C32_Stays ==
    \A id \in 1..Len(objs) :
        (objs[id].status = SHUTDOWN /\ objs'[id].status # SHUTDOWN) =>
            /\ lastCall'.op = "start"
            /\ C32_Target = id

C32_Restart ==
    (lastCall'.op = "start" /\ C32_Target # 0 /\ objs[C32_Target].status = SHUTDOWN
     /\ (DescOf(objs[C32_Target].desc).pack = "ok" \/ DescOf(objs[C32_Target].desc).preload.has)) =>
        /\ objs'[C32_Target].status = LOADING
        /\ Len(objs'[C32_Target].listeners) = 1

C32_StopWhileLoading == [][C32_Stop /\ C32_Complete /\ C32_Stays /\ C32_Restart]_vars

\* a scene stopped after its preload and before its create has seen a late
\* COMPLETE event and is still shut down
C32_Witness ==
    /\ lastCall.op = "complete"
    /\ SceneOf(lastCall.keyA) # 0
    /\ objs[SceneOf(lastCall.keyA)].status = SHUTDOWN
    /\ "preload" \in objs[SceneOf(lastCall.keyA)].fired
    /\ "create" \notin objs[SceneOf(lastCall.keyA)].fired
    /\ log = <<>>

(***************************************************************************)
(* C33: the user's update callback runs only once create has returned for  *)
(* the current run.  Until a scene is RUNNING its step hook is the no-op,  *)
(* so the steps it gets while LOADING or CREATING call nothing; every call *)
(* of the update callback finds the scene RUNNING; and within one call of  *)
(* the manager a restart of the scene is followed by the end of its create *)
(* before its update callback runs again.                                  *)
(***************************************************************************)
C33_NoOpUntilRunning ==
    \A id \in 1..Len(objs') : objs'[id].status < RUNNING => objs'[id].hook = "NOOP"

C33_Between(events, q, p, e) ==
    \E r \in (q + 1)..(p - 1) : events[r].e = e /\ events[r].id = events[p].id

C33_UpdateAfterCreate(events) ==
    \A p \in 1..Len(events) :
        events[p].e = "update" =>
            /\ events[p].st = RUNNING
            /\ \A q \in 1..(p - 1) :
                  (events[q].e = "start" /\ events[q].id = events[p].id)
                  => C33_Between(events, q, p, "created")

C33_NoUpdateBeforeCreate == [][C33_NoOpUntilRunning /\ C33_UpdateAfterCreate(log')]_vars

\* a scene that has an update callback was stepped while it was loading and
\* the callback did not run
C33_Witness ==
    \E p \in 1..Len(log) :
        /\ log[p].e = "step"
        /\ log[p].id # 0
        /\ DescOf(objs[log[p].id].desc).update.has
        /\ objs[log[p].id].status = LOADING
        /\ \A q \in 1..Len(log) : log[q].e # "update"

(***************************************************************************)
(* C34: the flush, at the top of every update and in every processQueue    *)
(* call, returns; when it raises no error it leaves _pending, _start and   *)
(* _queue empty, has admitted every pending entry once and has replayed    *)
(* every queue entry once, a queued removal leaving its key absent: also   *)
(* when update is called before the boot or a second time before render.   *)
(* The scenes have no update callback, so nothing is queued by the pass    *)
(* that follows the flush.                                                 *)
(***************************************************************************)
C34_Times(e, isIt(_)) == Cardinality({p \in 1..Len(log') : log'[p].e = e /\ isIt(log'[p])})

C34_Emptied == _pending' = <<>> /\ _start' = <<>> /\ _queue' = <<>>

C34_Applied ==
    /\ \A i \in 1..Len(_pending) :
          C34_Times("admit", LAMBDA ev : ev.key = _pending[i].key) = 1
    /\ \A i \in 1..Len(_queue) :
          /\ C34_Times("replay", LAMBDA ev : ev.id = i) = 1
          /\ (_queue[i].op = "remove" /\ _queue[i].keyA \in AllKeys) => keys'[_queue[i].keyA] = 0

C34_Flush ==
    lastCall'.op \in {"update", "processQueue"} =>
        /\ thrown' # "hang"
        /\ thrown' = "none" => (C34_Emptied /\ C34_Applied)

C34_FlushTerminates == [][C34_Flush]_vars

(***************************************************************************)
(* C35: a duplicate-key error raised while the flush admits the pending    *)
(* scenes aborts that admission only: the entries the flush has admitted   *)
(* are no longer pending when the error leaves update, and the flush of an *)
(* update called next does not raise an error again.                       *)
(***************************************************************************)
C35_Raised == lastCall'.op = "update" /\ thrown' = "error" /\ _pending # <<>>

C35_Admits == Cardinality({p \in 1..Len(log') : log'[p].e = "admit"})

C35_AdmittedNotPending == C35_Raised => Len(_pending') + C35_Admits <= Len(_pending)

C35_NotRaisedAgain == C35_Raised => ~ProcessQueue(Mgr').err

C35_DuplicateAbortsOnce == [][C35_AdmittedNotPending /\ C35_NotRaisedAgain]_vars

(***************************************************************************)
(* C36: in every state keys and scenes agree: every scene listed in scenes *)
(* is the value of keys at its own key, and every scene that is a value of *)
(* keys is listed in scenes.                                               *)
(***************************************************************************)
C36_ListedAreKeyed ==
    \A i \in 1..Len(scenes) :
        scenes[i] # 0 => keys[objs[scenes[i]].key] = scenes[i]

C36_KeyedAreListed == \A k \in AllKeys : keys[k] # 0 => keys[k] \in Range(scenes)

C36_KeysAgreeWithScenes == C36_ListedAreKeyed /\ C36_KeyedAreListed

(***************************************************************************)
(* C37: when the boot or a flush has admitted the pending entries, whose   *)
(* keys differ, and drained the collected keys without an error, every     *)
(* collected scene that is still admitted at the end has been started      *)
(* exactly once, and the collected scenes were started in the order of     *)
(* their admission: also when a callback run by the drain removes a scene. *)
(***************************************************************************)
C37_Drained ==
    /\ lastCall'.op \in {"boot", "update"}
    /\ thrown' = "none"
    /\ Len(objs') = Len(objs) + Len(_pending)
    /\ \A i, j \in 1..Len(objs') : i # j => objs'[i].key # objs'[j].key

C37_Collected(i) ==
    \/ _pending[i].autoStart
    \/ DescOf(_pending[i].scene).active
    \/ ~isBooted /\ _data[_pending[i].key].has /\ _data[_pending[i].key].autoStart

C37_Starts(id) == {p \in 1..Len(log') : log'[p].e = "start" /\ log'[p].id = id}

C37_StartedOnce ==
    \A i \in 1..Len(_pending) :
        (C37_Collected(i) /\ keys'[objs'[Len(objs) + i].key] = Len(objs) + i)
        => Cardinality(C37_Starts(Len(objs) + i)) = 1

C37_InOrder ==
    \A p, q \in 1..Len(log') :
        (p < q /\ log'[p].e = "start" /\ log'[q].e = "start"
         /\ log'[p].id > Len(objs) /\ log'[q].id > Len(objs))
        => log'[p].id < log'[q].id

C37_DrainStartsAll == [][C37_Drained => (C37_StartedOnce /\ C37_InOrder)]_vars

(***************************************************************************)
(* C38: at most one step of a RequestAnimationFrame is scheduled at any    *)
(* time, a frame request or a timer, whatever start and stop calls were    *)
(* made from outside and from inside the callback.                         *)
(***************************************************************************)
C38_Scheduled == Cardinality(raf.frames) + Cardinality(raf.timers)

C38_OneStepScheduled == C38_Scheduled <= 1

(***************************************************************************)
(* C39: once stop() has returned, no step calls the callback until start() *)
(* is called, in both modes and whether stop was called from outside or    *)
(* from inside the callback; and a start() made while running changes      *)
(* nothing: the callback and the mode stay and no step is scheduled.       *)
(***************************************************************************)
C39_Silent == (raf.stopped /\ raf'.op \in {"frame", "timeout"}) => raf'.invoked = <<>>

C39_StartWhileRunning ==
    (raf.isRunning /\ raf'.op = "start") =>
        raf' = [raf EXCEPT !.op = "start", !.invoked = <<>>, !.stopped = FALSE]

C39_StopSilences == [][C39_Silent /\ C39_StartWhileRunning]_vars

(***************************************************************************)
(* C40: Pad with a one-character pad raises no error; it returns the input *)
(* unchanged when the input has at least len characters, and otherwise a   *)
(* string of len characters: the input with the padding on the left for    *)
(* dir = 1, on the right for dir = 2 and on both sides for dir = 3.        *)
(***************************************************************************)
C40_Padding(n) == [i \in 1..n |-> padCall.pad]

C40_Padded(out) ==
    /\ Len(out) = padCall.len
    /\ \E left \in 0..(padCall.len - Len(padCall.str)) :
          /\ out = C40_Padding(left) \o padCall.str
                   \o C40_Padding(padCall.len - Len(padCall.str) - left)
          /\ padCall.dir = 1 => left = padCall.len - Len(padCall.str)
          /\ padCall.dir = 2 => left = 0

C40_PadResult ==
    padCall.phase = "done" =>
        /\ ~padCall.result.thrown
        /\ IF Len(padCall.str) >= padCall.len
           THEN padCall.result.out = padCall.str
           ELSE C40_Padded(padCall.result.out)

====
